---- MODULE Spec2Model ----
(***************************************************************************)
(* A model of umbra-js (src/umbra-js/src/types.ts): the Umbra class's       *)
(* scan / userAnnouncementsFromLogs / send flows, the paginated subgraph    *)
(* reader recursiveGraphFetch and the matcher isAnnouncementForUser.        *)
(*                                                                         *)
(* KeyPair and RandomNumber are imported by the source but their code is    *)
(* not part of src/; they are modelled from the specification (sections     *)
(* 4.1, 4.2) over a small prime-order group, whose points are written as    *)
(* their discrete logarithm with respect to the generator.                  *)
(***************************************************************************)
EXTENDS Integers, Sequences, FiniteSets, TLC

\* ------------------------------------------------------------------------
\* Bounds of the model
\* ------------------------------------------------------------------------

\* Largest row identifier an indexer holds in the pagination specification.
MaxId == 3

\* Stand-in for the page size `first: 1000` of recursiveGraphFetch.
PageSize == 2

\* Most payments the ledger holds.
MaxAnn == 3

\* Cap on the page requests of one recursiveGraphFetch run (never reached by
\* the code: every run ends before).
MaxRequests == 5

\* ------------------------------------------------------------------------
\* KeyPair / RandomNumber (modelled from the specification)
\* ------------------------------------------------------------------------

\* Order of the (scaled-down) curve group; scalars are 1..CurveOrder-1.
CurveOrder == 5

Scalars == 1..(CurveOrder - 1)

\* Curve points other than infinity, written as their discrete logarithm.
Points == 1..(CurveOrder - 1)

\* x-coordinate of a point: P and -P share it.
XCoord(p) == IF p <= CurveOrder - p THEN p ELSE CurveOrder - p

\* The strings a caller can pass as a key: a private scalar, a public point,
\* or something that is neither.
PrivKey(d) == [kind |-> "priv", k |-> d]
PubKey(p) == [kind |-> "pub", k |-> p]
BadKey == [kind |-> "bad", k |-> 0]
Keys == {PrivKey(d) : d \in Scalars} \cup {PubKey(p) : p \in Points} \cup {BadKey}

\* Outcome of an operation that may throw.
Ok(v) == [ok |-> TRUE, val |-> v]
Throw == [ok |-> FALSE]

\* new KeyPair(key): the public point, and the private scalar when given one
\* (0 = no private key). Throws on a malformed key.
NewKeyPair(key) ==
  IF key.kind = "priv" THEN Ok([priv |-> key.k, pub |-> key.k])
  ELSE IF key.kind = "pub" THEN Ok([priv |-> 0, pub |-> key.k])
  ELSE Throw

\* KeyPair.compressPublicKey(P).pubKeyXCoordinate
CompressPublicKey(p) == XCoord(p)

\* KeyPair.getUncompressedFromX(pkx): the point of that x-coordinate under the
\* fixed parity convention; throws when no point has that x-coordinate.
GetUncompressedFromX(pkx) ==
  IF pkx \in {XCoord(p) : p \in Points} THEN Ok(pkx) ELSE Throw

\* The Diffie-Hellman secret between an ephemeral key and a viewing key. It
\* depends on the ephemeral point only through its x-coordinate, so that the
\* parity lost in an announcement's pkx does not matter, and is otherwise
\* ideal: two secrets agree only for the same viewing key.
SharedSecret(viewScalar, ephemeralPoint) ==
  [x |-> XCoord(ephemeralPoint), v |-> viewScalar]

\* Ciphertexts: a random number sealed under a secret, or malformed bytes.
Sealed(secret, r) == [wf |-> TRUE, key |-> secret, r |-> r]
BadCiphertext == [wf |-> FALSE, key |-> [x |-> 0, v |-> 0], r |-> 0]

\* viewingKeyPair.encrypt(randomNumber) with ephemeral private key e.
Encrypt(viewPub, r, e) ==
  [ephemeralPublicKey |-> e, ciphertext |-> Sealed(SharedSecret(viewPub, e), r)]

\* viewingKeyPair.decrypt(payload): throws without a private key, on a
\* malformed ciphertext and on an authentication failure.
Decrypt(kp, payload) ==
  IF kp.priv = 0 \/ ~payload.ciphertext.wf THEN Throw
  ELSE IF payload.ciphertext.key # SharedSecret(kp.priv, payload.ephemeralPublicKey)
       THEN Throw
       ELSE Ok(payload.ciphertext.r)

\* spendingKeyPair.mulPublicKey(r): the point r * P.
MulPublicKey(kp, r) == [priv |-> 0, pub |-> (kp.pub * r) % CurveOrder]

\* ------------------------------------------------------------------------
\* Addresses (ethers getAddress)
\* ------------------------------------------------------------------------

\* An address string: 20 bytes written checksummed or in lower case, or a
\* string that is no address.
ChecksumAddr(a) == [form |-> "checksum", a |-> a]
LowerAddr(a) == [form |-> "lower", a |-> a]
BadAddr == [form |-> "bad", a |-> 0]

\* getAddress(s): the checksummed form; throws when s is no address.
GetAddress(s) == IF s.form = "bad" THEN Throw ELSE Ok(ChecksumAddr(s.a))

\* keyPair.address: the checksummed address of the public point (the hash of
\* the point is taken to be collision free).
AddressOf(kp) == ChecksumAddr(kp.pub)

\* The hex string of a random number, and the empty string.
Hex(r) == <<r>>
EmptyString == <<>>

\* ------------------------------------------------------------------------
\* isAnnouncementForUser
\* ------------------------------------------------------------------------

\* Mutant: the match is declared as soon as the ciphertext decrypts, without
\* comparing the stealth address with the receiver.
IsAnnouncementForUserNoCompare(spendingPublicKey, viewingPrivateKey, announcement) ==
  LET uncompressedPubKey == GetUncompressedFromX(announcement.pkx)
      viewingKeyPair == NewKeyPair(viewingPrivateKey)
      randomNumber ==
        IF ~uncompressedPubKey.ok \/ ~viewingKeyPair.ok THEN Throw
        ELSE Decrypt(viewingKeyPair.val,
                     [ephemeralPublicKey |-> uncompressedPubKey.val,
                      ciphertext |-> announcement.ciphertext])
      spendingKeyPair == NewKeyPair(spendingPublicKey)
      receiver == GetAddress(announcement.receiver)
  IN IF ~randomNumber.ok \/ ~spendingKeyPair.ok \/ ~receiver.ok THEN Throw
     ELSE Ok([isForUser |-> TRUE, randomNumber |-> Hex(randomNumber.val)])

\* Mutant: the stealth address is compared with the receiver string as the
\* event carries it, without getAddress.
IsAnnouncementForUserRawReceiver(spendingPublicKey, viewingPrivateKey, announcement) ==
  LET uncompressedPubKey == GetUncompressedFromX(announcement.pkx)
      viewingKeyPair == NewKeyPair(viewingPrivateKey)
      randomNumber ==
        IF ~uncompressedPubKey.ok \/ ~viewingKeyPair.ok THEN Throw
        ELSE Decrypt(viewingKeyPair.val,
                     [ephemeralPublicKey |-> uncompressedPubKey.val,
                      ciphertext |-> announcement.ciphertext])
      spendingKeyPair == NewKeyPair(spendingPublicKey)
  IN IF ~randomNumber.ok \/ ~spendingKeyPair.ok THEN Throw
     ELSE Ok([isForUser |->
                AddressOf(MulPublicKey(spendingKeyPair.val, randomNumber.val))
                  = announcement.receiver,
              randomNumber |-> Hex(randomNumber.val)])

\* The body of the try block: the result, or Throw when a step throws.
IsAnnouncementForUserTry(spendingPublicKey, viewingPrivateKey, announcement) ==
  LET uncompressedPubKey == GetUncompressedFromX(announcement.pkx)
      viewingKeyPair == NewKeyPair(viewingPrivateKey)
      randomNumber ==
        IF ~uncompressedPubKey.ok \/ ~viewingKeyPair.ok THEN Throw
        ELSE Decrypt(viewingKeyPair.val,
                     [ephemeralPublicKey |-> uncompressedPubKey.val,
                      ciphertext |-> announcement.ciphertext])
      spendingKeyPair == NewKeyPair(spendingPublicKey)
      receiver == GetAddress(announcement.receiver)
  IN IF ~randomNumber.ok \/ ~spendingKeyPair.ok \/ ~receiver.ok THEN Throw
     ELSE Ok([isForUser |->
                AddressOf(MulPublicKey(spendingKeyPair.val, randomNumber.val))
                  = receiver.val,
              randomNumber |-> Hex(randomNumber.val)])

\* Mutant: the catch clause is missing, so a failure propagates.
IsAnnouncementForUserNoCatch(spendingPublicKey, viewingPrivateKey, announcement) ==
  IsAnnouncementForUserTry(spendingPublicKey, viewingPrivateKey, announcement)

\* try { ... } catch (err) { return { isForUser: false, randomNumber: '' } }
IsAnnouncementForUser(spendingPublicKey, viewingPrivateKey, announcement) ==
  LET t == IsAnnouncementForUserTry(spendingPublicKey, viewingPrivateKey, announcement)
  IN IF t.ok THEN t ELSE Ok([isForUser |-> FALSE, randomNumber |-> EmptyString])

\* ------------------------------------------------------------------------
\* send: the announcement a payment publishes
\* ------------------------------------------------------------------------

\* The Announcement event a send to the recipient keys (spendingPublicKey,
\* viewingPublicKey) emits, with random number r and ephemeral key e: the
\* stealth address, the x-coordinate of the ephemeral key and the ciphertext.
SendAnnouncement(spendingPublicKey, viewingPublicKey, r, e) ==
  LET spendingKeyPair == NewKeyPair(spendingPublicKey).val
      viewingKeyPair == NewKeyPair(viewingPublicKey).val
      encrypted == Encrypt(viewingKeyPair.pub, r, e)
      stealthKeyPair == MulPublicKey(spendingKeyPair, r)
  IN [receiver |-> AddressOf(stealthKeyPair),
      pkx |-> CompressPublicKey(encrypted.ephemeralPublicKey),
      ciphertext |-> encrypted.ciphertext]

\* ------------------------------------------------------------------------
\* State
\* ------------------------------------------------------------------------

VARIABLES
  matchPc,      \* matcher run: "ready" | "done"
  matchArgs,    \* the (spendingPublicKey, viewingPrivateKey, announcement) of the call
  matchOrigin,  \* how the announcement came to be: built by a send, or arbitrary
  matchResult,  \* what isAnnouncementForUser produced
  indexer,      \* the subgraph: the rows it holds and how it answers
  fetchPc,      \* recursiveGraphFetch: "off" | "request" | "await" | "returned" | "rejected"
  before,       \* recursiveGraphFetch's accumulator
  requests,     \* the cursor (fromId) of every page request issued, in order
  pages,        \* every page received, in order
  inFlight,     \* page requests issued and not yet answered
  fetchResult,  \* the array recursiveGraphFetch resolved with
  chainConfig,  \* this.chainConfig, set by the constructor
  hasWindow,    \* typeof window !== 'undefined'
  ledger,       \* the Announcement events of the Umbra contract, in log order
  sends,        \* for each event, the recipient and random number of its send
  sendOutcome,  \* how the last send ended
  tokenBalance, \* the sender's balance of the ERC-20 token
  ethBalance,   \* the sender's balance of the native asset
  opCall,       \* the last send, withdraw or signing call and its arguments
  opTrace,      \* the steps that call took, in order: reads, submissions, signing
  opOutcome,    \* how that call ended (send: see sendOutcome)
  opTxs,        \* the transactions and contract calls that call submitted
  scanPc,       \* scan: "idle" | "graph" | "logs" | "reads" | "done"
  scanArgs,     \* the arguments of the scan call
  graphOutcome, \* the indexed path: "none" | "ok" | "queryFailed" | "postFailed"
  logOutcome,   \* the raw-log path: "none" | "ok" | "queryFailed" | "readFailed"
  logQueries,   \* the (startBlock, endBlock) of every queryFilter call issued
  logEvents,    \* the events queryFilter returned (indexes into ledger)
  pendingReads, \* the getBlock/getTransaction reads in flight: <<position, read>>
  readSlots,    \* per position of logEvents: null, or the reads' results so far
  matched,      \* the events the matcher was called on by this scan, in call order
  scanResult,   \* what the promise scan returned settled to
  warnings      \* console.warn calls

matchVars == <<matchPc, matchArgs, matchOrigin, matchResult>>
fetchVars == <<indexer, fetchPc, before, requests, pages, inFlight, fetchResult>>
envVars == <<chainConfig, hasWindow>>
ledgerVars == <<ledger, sends, sendOutcome, tokenBalance, ethBalance, opCall, opTrace>>
opVars == <<opOutcome, opTxs>>
scanVars == <<scanPc, scanArgs, graphOutcome, logOutcome, logQueries, logEvents,
              pendingReads, readSlots, matched, scanResult, warnings>>
umbraVars == <<chainConfig, hasWindow, ledger, sends, sendOutcome, tokenBalance,
               ethBalance, opCall, opTrace, opOutcome, opTxs,
               scanPc, scanArgs, graphOutcome, logOutcome, logQueries, logEvents,
               pendingReads, readSlots, matched, scanResult, warnings>>

vars == <<matchPc, matchArgs, matchOrigin, matchResult,
          indexer, fetchPc, before, requests, pages, inFlight, fetchResult,
          chainConfig, hasWindow, ledger, sends, sendOutcome, tokenBalance,
          ethBalance, opCall, opTrace, opOutcome, opTxs,
          scanPc, scanArgs, graphOutcome, logOutcome, logQueries, logEvents,
          pendingReads, readSlots, matched, scanResult, warnings>>

\* ------------------------------------------------------------------------
\* The matcher on its own: isAnnouncementForUser applied to every input
\* ------------------------------------------------------------------------

\* Every announcement an event can carry: any pkx word, any ciphertext, any
\* receiver string.
PkxWords == 0..(CurveOrder - 2)
Ciphertexts ==
  {BadCiphertext} \cup
  {Sealed([x |-> x, v |-> v], r) :
     x \in {XCoord(p) : p \in Points}, v \in Scalars, r \in Scalars}
AddressStrings ==
  {BadAddr} \cup {ChecksumAddr(a) : a \in Points} \cup {LowerAddr(a) : a \in Points}
AnyAnnouncements ==
  [receiver : AddressStrings, pkx : PkxWords, ciphertext : Ciphertexts]

NoArgs == [spendingPublicKey |-> BadKey, viewingPrivateKey |-> BadKey]
NoResult == [ok |-> FALSE, pending |-> TRUE]

MatchIdle ==
  /\ matchPc = "off"
  /\ matchArgs = NoArgs
  /\ matchOrigin = [built |-> FALSE]
  /\ matchResult = NoResult

\* The announcement is either arbitrary event data or the one a sender built
\* for the recipient with spending key d and viewing key v.
MatchInit ==
  /\ matchPc = "ready"
  /\ matchArgs = NoArgs
  /\ matchResult = NoResult
  /\ \/ \E ann \in AnyAnnouncements :
          matchOrigin = [built |-> FALSE, announcement |-> ann]
     \/ \E d \in Scalars, v \in Scalars, r \in Scalars, e \in Scalars,
           lower \in BOOLEAN :
          LET an == SendAnnouncement(PubKey(d), PubKey(v), r, e)
          IN matchOrigin =
               [built |-> TRUE, d |-> d, v |-> v, r |-> r, e |-> e,
                announcement |->
                  IF lower THEN [an EXCEPT !.receiver = LowerAddr(an.receiver.a)]
                  ELSE an]

\* ------------------------------------------------------------------------
\* The Umbra instance, the ledger and the recipient directory
\* ------------------------------------------------------------------------

\* subgraphUrl is a URL or false.
NoSubgraph == "false"
SubgraphUrls == {NoSubgraph, "https://api.thegraph.com/subgraphs/name/scopelift/umbra"}

\* The chain the raw-log query is not supported on (Polygon).
LogUnsupportedChainId == 137

\* The configurations an instance is constructed with: a chain that supports
\* raw-log queries (mainnet) and the one that does not, with or without a
\* subgraph; the contract is deployed at block 1.
ChainConfigs ==
  [chainId : {1, LogUnsupportedChainId}, startBlock : {1}, subgraphUrl : SubgraphUrls]

\* The recipient directory (lookupRecipient): the registered recipients and
\* their spending and viewing private scalars. Their public keys are what
\* the directory resolves.
Recipients == {"alice", "bob"}
RecipientKeys(name) ==
  IF name = "alice" THEN [spend |-> 2, view |-> 3] ELSE [spend |-> 4, view |-> 3]

\* What lookupRecipient resolves for a recipient ID: both public keys of a
\* registered recipient, only the spending key of "carol", none otherwise.
MissingKey == [kind |-> "undefined", k |-> 0]
RecipientIds == Recipients \cup {"carol", "nobody"}
LookupRecipient(recipientId) ==
  IF recipientId \in Recipients
  THEN [spendingPublicKey |-> PubKey(RecipientKeys(recipientId).spend),
        viewingPublicKey |-> PubKey(RecipientKeys(recipientId).view)]
  ELSE IF recipientId = "carol"
  THEN [spendingPublicKey |-> PubKey(1), viewingPublicKey |-> MissingKey]
  ELSE [spendingPublicKey |-> MissingKey, viewingPublicKey |-> MissingKey]

\* The random numbers and ephemeral keys a send draws.
SendScalars == {1, 2}

\* Fixed addresses of the model: the sender, the ETH pseudo-token
\* 0xEeeeeEeeeEeEeeEeEeEeeEEEeeeeEeeeeeeeEEeE and an ERC-20 token.
SenderAddress == ChecksumAddr(CurveOrder + 1)
EthAddress == ChecksumAddr(CurveOrder + 2)
TokenAddress == ChecksumAddr(CurveOrder + 3)

\* The string 'ETH'.
EthSymbol == [form |-> "ETH", a |-> 0]

\* The `token` arguments a caller passes to send.
SendTokens == {EthSymbol, TokenAddress, BadAddr}

\* A decimal string (an amount, a timestamp), or a string that is no number.
Str(n) == [str |-> n]
BadNumber == [str |-> -1]

\* BigNumber.from(s): throws on a string that is no number.
BigNumberFrom(s) == IF s.str < 0 THEN Throw ELSE Ok(s.str)

\* The amount of a payment, and the toll the contract charges.
SendAmount == 1
Toll == 1

\* The `amount` arguments a caller passes to send.
SendAmounts == {Str(SendAmount), BadNumber}

\* isEth(token): true for 'ETH' and the ETH pseudo-token address; throws
\* when token is neither 'ETH' nor an address.
IsEth(token) ==
  IF token = EthSymbol THEN Ok(TRUE)
  ELSE IF token.form \notin {"checksum", "lower"} THEN Throw
  ELSE Ok(ChecksumAddr(token.a) = EthAddress)

\* blockedStealthAddresses
BlockedStealthAddresses == {ChecksumAddr(3)}

\* A block tag: a number or 'latest'; an override: a number or undefined.
BlockNumber(n) == [tag |-> "number", n |-> n]
Latest == [tag |-> "latest", n |-> 0]
Undefined == [tag |-> "undefined", n |-> 0]

\* x || y for a block override x: undefined and 0 are falsy.
OrElse(x, y) == IF x.tag = "undefined" \/ (x.tag = "number" /\ x.n = 0) THEN y ELSE x

\* const startBlock = overrides.startBlock || this.chainConfig.startBlock
ScanStartBlock(overrides) == OrElse(overrides.startBlock, BlockNumber(chainConfig.startBlock))

\* const endBlock = overrides.endBlock || 'latest'
ScanEndBlock(overrides) == OrElse(overrides.endBlock, Latest)

\* The overrides a caller passes.
ScanOverrides ==
  [startBlock : {Undefined, BlockNumber(0), BlockNumber(2)},
   endBlock : {Undefined, BlockNumber(1)}]

NoScanArgs ==
  [spendingPublicKey |-> BadKey, viewingPrivateKey |-> BadKey,
   overrides |-> [startBlock |-> Undefined, endBlock |-> Undefined]]

Pending == [status |-> "pending", userAnnouncements |-> <<>>]
Resolved(uas) == [status |-> "resolved", userAnnouncements |-> uas]
Rejected == [status |-> "rejected", userAnnouncements |-> <<>>]

\* No send, withdraw or signing call has been made.
NoCall == [op |-> "none"]
OpsIdle ==
  /\ opCall = NoCall
  /\ opTrace = <<>>
  /\ opOutcome = "none"
  /\ opTxs = <<>>

UmbraIdle ==
  /\ chainConfig = [chainId |-> 1, startBlock |-> 1, subgraphUrl |-> NoSubgraph]
  /\ hasWindow = FALSE
  /\ ledger = <<>>
  /\ sends = <<>>
  /\ sendOutcome = "none"
  /\ tokenBalance = 0
  /\ ethBalance = 0
  /\ OpsIdle
  /\ scanPc = "off"
  /\ scanArgs = NoScanArgs
  /\ graphOutcome = "none"
  /\ logOutcome = "none"
  /\ logQueries = <<>>
  /\ logEvents = <<>>
  /\ pendingReads = {}
  /\ readSlots = <<>>
  /\ matched = <<>>
  /\ scanResult = Pending
  /\ warnings = 0

\* new Umbra(provider, chainConfig), in a browser or not.
UmbraInit ==
  /\ chainConfig \in ChainConfigs
  /\ hasWindow \in BOOLEAN
  /\ ledger = <<>>
  /\ sends = <<>>
  /\ sendOutcome = "none"
  /\ tokenBalance = 0
  /\ ethBalance = MaxAnn * (Toll + SendAmount)
  /\ OpsIdle
  /\ scanPc = "idle"
  /\ scanArgs = NoScanArgs
  /\ graphOutcome = "none"
  /\ logOutcome = "none"
  /\ logQueries = <<>>
  /\ logEvents = <<>>
  /\ pendingReads = {}
  /\ readSlots = <<>>
  /\ matched = <<>>
  /\ scanResult = Pending
  /\ warnings = 0

\* ------------------------------------------------------------------------
\* send
\* ------------------------------------------------------------------------

\* JavaScript values a caller can pass: an integer, the number n + 1/2, NaN,
\* a string that is no number, a boolean, undefined.
JsNumber(n) == [t |-> "number", n |-> n, kind |-> "integer"]
JsFraction(n) == [t |-> "number", n |-> n, kind |-> "fraction"]
JsNaN == [t |-> "number", n |-> 0, kind |-> "NaN"]
JsString(str) == [t |-> "string", n |-> 0, kind |-> str]
JsBoolean(b) == [t |-> "boolean", n |-> IF b THEN 1 ELSE 0, kind |-> "boolean"]
JsUndefined == [t |-> "undefined", n |-> 0, kind |-> "undefined"]

\* The `overrides` objects a caller passes to send: none, transaction
\* overrides with every lookup-only override, and an own `value` with one
\* lookup-only override.
SendOverrides ==
  {<<>>,
   [gasPrice |-> JsNumber(10), nonce |-> JsNumber(5), advanced |-> JsBoolean(FALSE),
    supportPubKey |-> JsBoolean(TRUE), supportTxHash |-> JsBoolean(TRUE)],
   [value |-> JsNumber(7), supportTxHash |-> JsBoolean(FALSE)]}

\* The object o after `delete o.k` for every k of keys.
Without(o, keys) == [k \in DOMAIN o \ keys |-> o[k]]

\* Mutant: the caller's object itself is worked on.
LocalOverridesNoCopy(overrides) ==
  LET stripped == Without(overrides, {"advanced", "supportPubKey", "supportTxHash"})
  IN [localOverrides |-> stripped, overrides |-> stripped]

\* Lines 243-251: localOverrides, a copy of the caller's overrides with the
\* lookup-only keys deleted, and the caller's object after the deletions.
LocalOverrides(overrides) ==
  [localOverrides |-> Without(overrides, {"advanced", "supportPubKey", "supportTxHash"}),
   overrides |-> overrides]

\* The Announcement event the contract logs for a payment: event number i,
\* mined in block i, with transaction hash i and block timestamp i.
LedgerEvent(i, an, token, amount) ==
  [receiver |-> an.receiver, amount |-> amount, token |-> token,
   pkx |-> an.pkx, ciphertext |-> an.ciphertext,
   from |-> SenderAddress, txHash |-> i, timestamp |-> i, block |-> i]

\* Mutant: the token balance is never found too low.
BalanceTooLowNever(balance, amount) == FALSE

\* tokenBalance.lt(amount)
BalanceTooLow(balance, amount) == balance < amount

\* Mutant: the lookup counts as failed only when both keys are missing.
KeysMissingBoth(keys) ==
  keys.spendingPublicKey = MissingKey /\ keys.viewingPublicKey = MissingKey

\* !spendingPublicKey || !viewingPublicKey
KeysMissing(keys) ==
  keys.spendingPublicKey = MissingKey \/ keys.viewingPublicKey = MissingKey

\* Mutant: no address counts as blocked.
IsBlockedNever(address) == FALSE

\* blockedStealthAddresses.includes(stealthKeyPair.address)
IsBlocked(address) == address \in BlockedStealthAddresses

\* send(signer, token, amount, recipientId, overrides), its arguments drawn
\* from `sendTokens`, `amounts`, `recipientIds` and `callerOverrides` and the
\* ephemeral key of the encryption from `ephemeralKeys`: validate the token and, for an ERC-20 token, read the sender's balance and
\* compare it with the amount; read the toll; look the recipient up; draw the
\* random number, encrypt it, derive the stealth address and check it against
\* the block list; submit sendEth (value toll + amount) or sendToken (value
\* toll), each with txOverrides = { ...localOverrides, value }, and return
\* without waiting for the receipt. The ledger rejects a call whose value the
\* sender cannot pay; else the contract logs the Announcement. opTrace lists
\* the steps taken.
Send(sendTokens, amounts, recipientIds, callerOverrides, ephemeralKeys) ==
  /\ scanPc = "idle"
  /\ Len(ledger) < MaxAnn
  /\ \E token \in sendTokens, amount \in amounts,
        recipientId \in recipientIds, overrides \in callerOverrides :
       LET eth == IsEth(token)
           parsed == LocalOverrides(overrides)
           tollRead == eth.ok /\ (eth.val \/ (BigNumberFrom(amount).ok
                         /\ ~BalanceTooLow(tokenBalance, BigNumberFrom(amount).val)))
           Entry(call, value, an, r) ==
             [recipient |-> recipientId, r |-> r, call |-> call, value |-> value,
              stealthAddress |-> an.receiver, pkx |-> an.pkx,
              ciphertext |-> an.ciphertext,
              txOverrides |-> ("value" :> JsNumber(value)) @@ parsed.localOverrides]
           amt == BigNumberFrom(amount)
           keys == LookupRecipient(recipientId)
           spendingKeyPair == NewKeyPair(keys.spendingPublicKey)
           viewingKeyPair == NewKeyPair(keys.viewingPublicKey)
           reads == (IF eth.ok /\ ~eth.val THEN <<"balanceOf">> ELSE <<>>)
                      \o <<"toll", "lookupRecipient">>
                      \o (IF keys.spendingPublicKey = MissingKey
                             \/ keys.viewingPublicKey = MissingKey
                          THEN <<"keys unresolved">> ELSE <<>>)
           Fail(outcome, trace) ==
             /\ sendOutcome' = outcome
             /\ opTrace' = trace
             /\ UNCHANGED <<ledger, sends, tokenBalance, ethBalance>>
           Submit(call, value, tokens, event, entry) ==
             IF ethBalance < value
             THEN Fail("rejected by ledger", reads \o <<"encrypt", call>>)
             ELSE /\ sendOutcome' = "submitted"
                  /\ opTrace' = reads \o <<"encrypt", call>>
                  /\ ledger' = Append(ledger, event)
                  /\ sends' = Append(sends, entry)
                  /\ ethBalance' = ethBalance - value
                  /\ tokenBalance' = tokenBalance - tokens
       IN /\ opCall' = [op |-> "send", token |-> token, amount |-> amount,
                        ethBefore |-> ethBalance, tokenBefore |-> tokenBalance,
                        overrides |-> overrides,
                        overridesAfter |-> IF tollRead THEN parsed.overrides
                                           ELSE overrides]
          /\ IF ~eth.ok
             THEN Fail("invalid token", <<>>)
             ELSE IF ~eth.val /\ ~amt.ok
             THEN Fail("invalid amount", <<"balanceOf">>)
             ELSE IF ~eth.val /\ BalanceTooLow(tokenBalance, amt.val)
             THEN Fail("insufficient balance", <<"balanceOf">>)
             ELSE IF KeysMissing(keys)
             THEN Fail("no public keys", reads)
             ELSE IF ~spendingKeyPair.ok \/ ~viewingKeyPair.ok
             THEN Fail("invalid public key", reads)
             ELSE \E r \in SendScalars, e \in ephemeralKeys :
                    LET an == SendAnnouncement(keys.spendingPublicKey,
                                               keys.viewingPublicKey, r, e)
                        i == Len(ledger) + 1
                    IN IF IsBlocked(an.receiver)
                       THEN Fail("invalid stealth address", reads \o <<"encrypt">>)
                       ELSE IF eth.val /\ ~amt.ok
                       THEN Fail("invalid amount", reads \o <<"encrypt">>)
                       ELSE IF eth.val
                       THEN Submit("sendEth", Toll + amt.val, 0,
                                   LedgerEvent(i, an, EthAddress, amt.val),
                                   Entry("sendEth", Toll + amt.val, an, r))
                       ELSE Submit("sendToken", Toll, amt.val,
                                   LedgerEvent(i, an, GetAddress(token).val, amt.val),
                                   Entry("sendToken", Toll, an, r))
  /\ UNCHANGED <<envVars, scanVars, fetchVars, matchVars, opVars>>

\* ------------------------------------------------------------------------
\* recursiveGraphFetch
\* ------------------------------------------------------------------------

RECURSIVE Flatten(_)
\* The in-order concatenation of a sequence of pages.
Flatten(ps) == IF ps = <<>> THEN <<>> ELSE Head(ps) \o Flatten(Tail(ps))

\* The sequences of at most n distinct elements of S.
RECURSIVE DistinctSeqs(_, _)
DistinctSeqs(S, n) ==
  IF n = 0 \/ S = {} THEN {<<>>}
  ELSE {<<>>} \cup
       UNION {{<<x>> \o t : t \in DistinctSeqs(S \ {x}, n - 1)} : x \in S}

\* The rows of S in ascending identifier order.
RECURSIVE Ascending(_)
Ascending(S) ==
  IF S = {} THEN <<>>
  ELSE LET lo == CHOOSE x \in S : \A y \in S : x.id <= y.id
       IN <<lo>> \o Ascending(S \ {lo})

FirstN(sq, n) == SubSeq(sq, 1, IF Len(sq) < n THEN Len(sq) ELSE n)

\* A cursor is <<>> (no lower bound: fromId is false) or <<id>>.
NoCursor == <<>>
AfterCursor(rows, cursor) ==
  {x \in rows : cursor = NoCursor \/ x.id > cursor[1]}

\* Mutant: the cursor is taken from the first row collected, not the last.
FromIdFirst(bef) == IF Len(bef) > 0 THEN <<bef[1].id>> ELSE NoCursor

\* const fromId = before.length ? before[before.length - 1].id : false
FromId(bef) == IF Len(bef) > 0 THEN <<bef[Len(bef)].id>> ELSE NoCursor

\* Mutant: the new page replaces what was collected.
AccumulateReplace(bef, page) == page

\* [...before, ...json.data[key]]
Accumulate(bef, page) == bef \o page

\* Mutant: the request is not awaited before the next one is built.
PcNotAwaited == "request"

\* `await fetch(...)`: the run is suspended until the page arrives.
PcAfterRequest == "await"

\* The pages an indexer may answer a request `first: PageSize, id_gt: cursor`
\* with. A "graph" indexer answers as The Graph does: the first PageSize rows
\* above the cursor in ascending identifier order. An "any" indexer answers
\* with at most PageSize of its rows above the cursor, in any order.
Responses(cursor) ==
  IF indexer.kind = "graph"
  THEN {FirstN(Ascending(AfterCursor(indexer.rows, cursor)), PageSize)}
  ELSE DistinctSeqs(AfterCursor(indexer.rows, cursor), PageSize)

FetchIdle ==
  /\ indexer = [kind |-> "graph", rows |-> {}]
  /\ fetchPc = "off"
  /\ before = <<>>
  /\ requests = <<>>
  /\ pages = <<>>
  /\ inFlight = 0
  /\ fetchResult = <<>>

\* recursiveGraphFetch(url, key, query) called with the default before = [].
FetchInit ==
  /\ \E ids \in SUBSET (1..MaxId), kind \in {"graph", "any"} :
       indexer = [kind |-> kind, rows |-> {[id |-> i] : i \in ids}]
  /\ fetchPc = "request"
  /\ before = <<>>
  /\ requests = <<>>
  /\ pages = <<>>
  /\ inFlight = 0
  /\ fetchResult = <<>>

\* Lines 643-657: compute fromId and POST the page query.
FetchRequest ==
  /\ fetchPc = "request"
  /\ Len(requests) < MaxRequests
  /\ requests' = Append(requests, FromId(before))
  /\ inFlight' = inFlight + 1
  /\ fetchPc' = PcAfterRequest
  /\ UNCHANGED <<indexer, before, pages, fetchResult>>

\* Lines 660-664: the page arrives; an empty page ends the run with a copy of
\* the accumulator, any other page is appended and the next call is made.
FetchResponse ==
  /\ fetchPc = "await"
  /\ inFlight > 0
  /\ \E page \in Responses(requests[Len(requests)]) :
       /\ pages' = Append(pages, page)
       /\ IF Len(page) = 0
          THEN /\ fetchPc' = "returned"
               /\ fetchResult' = before
               /\ UNCHANGED before
          ELSE /\ fetchPc' = "request"
               /\ before' = Accumulate(before, page)
               /\ UNCHANGED fetchResult
  /\ inFlight' = inFlight - 1
  /\ UNCHANGED <<indexer, requests>>

\* fetch rejects, res.json() rejects or json.data[key] is missing: the
\* promise recursiveGraphFetch returned rejects.
FetchFailure ==
  /\ fetchPc = "await"
  /\ inFlight > 0
  /\ fetchPc' = "rejected"
  /\ inFlight' = inFlight - 1
  /\ UNCHANGED <<indexer, before, requests, pages, fetchResult>>

FetchNext ==
  \/ FetchRequest /\ UNCHANGED <<matchVars, umbraVars>>
  \/ FetchResponse /\ UNCHANGED <<matchVars, umbraVars>>
  \/ FetchFailure /\ UNCHANGED <<matchVars, umbraVars>>

InitFetch == MatchIdle /\ FetchInit /\ UmbraIdle

SpecFetch == InitFetch /\ [][FetchNext]_vars

\* The run under the event loop's scheduling: a call that can build its
\* request does, and the promise of a request in flight settles.
SpecFetchLive == InitFetch /\ [][FetchNext]_vars /\ WF_vars(FetchNext)

\* ------------------------------------------------------------------------
\* scan and userAnnouncementsFromLogs
\* ------------------------------------------------------------------------

\* The row the subgraph holds for ledger event ev: the event's fields as
\* strings, addresses in lower case, under the identifier i.
SubgraphRow(i, ev) ==
  [id |-> i, amount |-> Str(ev.amount), block |-> Str(ev.block),
   ciphertext |-> ev.ciphertext, from |-> LowerAddr(ev.from.a), pkx |-> ev.pkx,
   receiver |-> LowerAddr(ev.receiver.a), timestamp |-> Str(ev.timestamp),
   token |-> LowerAddr(ev.token.a), txHash |-> ev.txHash]

\* The rows of a subgraph in step with the ledger; `corrupt` is the number of
\* a row it serves with a token that is no address (0: none).
SubgraphRows(corrupt) ==
  {IF i = corrupt
   THEN [SubgraphRow(i, ledger[i]) EXCEPT !.token = BadAddr]
   ELSE SubgraphRow(i, ledger[i]) : i \in 1..Len(ledger)}

\* Mutant: every announcement is kept, matched or not.
IsKeptAlways(match) == TRUE

\* `if (isForUser) userAnns.push(...)` and `if (!isForUser) return null`
IsKept(match) == match.isForUser

RECURSIVE ReduceRows(_, _, _)
\* Lines 422-430: the rows mapped to announcements (amount to BigNumber) and
\* reduced to the user's announcements; Throw when BigNumber.from or
\* getAddress throws.
ReduceRows(rows, spendingPublicKey, viewingPrivateKey) ==
  IF rows = <<>> THEN Ok(<<>>)
  ELSE LET x == Head(rows)
           amount == BigNumberFrom(x.amount)
           match == IsAnnouncementForUser(spendingPublicKey, viewingPrivateKey, x).val
           token == GetAddress(x.token)
           rest == ReduceRows(Tail(rows), spendingPublicKey, viewingPrivateKey)
       IN IF ~amount.ok \/ ~token.ok \/ ~rest.ok THEN Throw
          ELSE IF IsKept(match)
          THEN Ok(<<[randomNumber |-> match.randomNumber, receiver |-> x.receiver,
                     amount |-> amount.val, token |-> token.val, from |-> x.from,
                     txHash |-> x.txHash, timestamp |-> x.timestamp,
                     isWithdrawn |-> FALSE]>> \o rest.val)
          ELSE rest

RECURSIVE MatchedUpTo(_)
\* The identifiers of the rows the reduction calls the matcher on: each row in
\* turn, up to and including the first whose token getAddress rejects.
MatchedUpTo(rows) ==
  IF rows = <<>> THEN <<>>
  ELSE IF ~GetAddress(Head(rows).token).ok THEN <<Head(rows).id>>
  ELSE <<Head(rows).id>> \o MatchedUpTo(Tail(rows))

\* Lines 422-430: the matcher calls of the reduction. BigNumber.from is
\* mapped over every row first, so one malformed amount throws before any
\* row is matched.
ReduceMatched(rows) ==
  IF \E k \in 1..Len(rows) : ~BigNumberFrom(rows[k].amount).ok THEN <<>>
  ELSE MatchedUpTo(rows)

\* Mutant: no chain is treated as log-query-unsupported.
LogUnsupportedNever(chainId) == FALSE

\* this.chainConfig.chainId === 137
LogUnsupported(chainId) == chainId = LogUnsupportedChainId

\* Mutant: the indexed query is tried whenever a subgraph is configured.
UseSubgraphWithoutWindow == chainConfig.subgraphUrl # NoSubgraph

\* typeof window !== 'undefined' && this.chainConfig.subgraphUrl
UseSubgraph == hasWindow /\ chainConfig.subgraphUrl # NoSubgraph

\* Mutant: the raw-log query starts at the chain's start block whatever the
\* caller's override.
LogQueryRangeNoOverride(overrides) ==
  [startBlock |-> BlockNumber(chainConfig.startBlock), endBlock |-> ScanEndBlock(overrides)]

\* The (startBlock, endBlock) scan hands to userAnnouncementsFromLogs.
LogQueryRange(overrides) ==
  [startBlock |-> ScanStartBlock(overrides), endBlock |-> ScanEndBlock(overrides)]

\* Lines 437-442 and 448-453: warn and resolve with an empty list on the
\* log-unsupported chain, else call userAnnouncementsFromLogs, which issues
\* queryFilter(announcementFilter, startBlock, endBlock).
LogsOrDegrade(overrides) ==
  IF LogUnsupported(chainConfig.chainId)
  THEN /\ warnings' = warnings + 1
       /\ scanResult' = Resolved(<<>>)
       /\ scanPc' = "done"
       /\ UNCHANGED logQueries
  ELSE /\ logQueries' = Append(logQueries, LogQueryRange(overrides))
       /\ scanPc' = "logs"
       /\ UNCHANGED <<warnings, scanResult>>

\* scan(spendingPublicKey, viewingPrivateKey, overrides) up to its first
\* await: the indexed query when a subgraph is configured and fetch exists,
\* else the raw-log path.
ScanStart ==
  /\ scanPc = "idle"
  /\ \E user \in Recipients, overrides \in ScanOverrides :
       /\ scanArgs' = [spendingPublicKey |-> PubKey(RecipientKeys(user).spend),
                       viewingPrivateKey |-> PrivKey(RecipientKeys(user).view),
                       overrides |-> overrides]
       /\ IF UseSubgraph
          THEN /\ \E corrupt \in {0, Len(ledger)} :
                    indexer' = [kind |-> "graph", rows |-> SubgraphRows(corrupt)]
               /\ fetchPc' = "request"
               /\ scanPc' = "graph"
               /\ UNCHANGED <<before, requests, pages, inFlight, fetchResult,
                              logQueries, warnings, scanResult>>
          ELSE /\ LogsOrDegrade(overrides)
               /\ UNCHANGED fetchVars
  /\ UNCHANGED <<graphOutcome, logOutcome, logEvents, pendingReads, readSlots, matched>>
  /\ UNCHANGED <<envVars, ledgerVars, matchVars>>

\* Lines 419-443: recursiveGraphFetch settled. Its rows are reduced to the
\* user's announcements and returned; if it rejected, or the reduction
\* throws, the catch clause runs.
ScanAfterGraph ==
  /\ scanPc = "graph"
  /\ fetchPc \in {"returned", "rejected"}
  /\ matched' = IF fetchPc = "rejected" THEN matched
                 ELSE matched \o ReduceMatched(fetchResult)
  /\ LET out == IF fetchPc = "rejected" THEN Throw
                ELSE ReduceRows(fetchResult, scanArgs.spendingPublicKey,
                                scanArgs.viewingPrivateKey)
     IN IF out.ok
        THEN /\ graphOutcome' = "ok"
             /\ scanResult' = Resolved(out.val)
             /\ scanPc' = "done"
             /\ UNCHANGED <<logQueries, warnings>>
        ELSE /\ graphOutcome' = IF fetchPc = "rejected" THEN "queryFailed" ELSE "postFailed"
             /\ LogsOrDegrade(scanArgs.overrides)
  /\ UNCHANGED <<scanArgs, logOutcome, logEvents, pendingReads, readSlots>>
  /\ UNCHANGED <<envVars, ledgerVars, fetchVars, matchVars>>

\* Whether block b lies in the range of a raw-log query.
InRange(b, range) ==
  /\ range.startBlock.tag = "number" => b >= range.startBlock.n
  /\ range.endBlock.tag = "number" => b <= range.endBlock.n

RECURSIVE SelectIndexes(_, _)
\* The indexes 1..n of the ledger events inside a range, in log order.
SelectIndexes(n, range) ==
  IF n = 0 THEN <<>>
  ELSE LET rest == SelectIndexes(n - 1, range)
       IN IF InRange(ledger[n].block, range) THEN Append(rest, n) ELSE rest

\* The matcher's verdict on ledger event i for the scanning user.
MatchEvent(i) ==
  IsAnnouncementForUser(scanArgs.spendingPublicKey, scanArgs.viewingPrivateKey,
                        ledger[i]).val

\* What event.getBlock() and event.getTransaction() of ledger event i
\* resolve with.
ReadResult(i, read) ==
  IF read = "block" THEN [number |-> ledger[i].block, timestamp |-> ledger[i].timestamp]
  ELSE [hash |-> ledger[i].txHash, from |-> ledger[i].from]

\* The slot of an announcement the matcher rejected (`return null`), and of
\* one it accepted, whose two reads are in flight.
Slot(isNull) == [isNull |-> isNull, block |-> <<>>, tx |-> <<>>]

\* Mutant: a result goes to the first announcement still waiting for a read
\* of that kind.
SettleInArrivalOrder(slots, k, read, result) ==
  LET first == CHOOSE j \in 1..Len(slots) :
                 /\ ~slots[j].isNull /\ slots[j][read] = <<>>
                 /\ \A h \in 1..(j - 1) : slots[h].isNull \/ slots[h][read] # <<>>
  IN [slots EXCEPT ![first][read] = <<result>>]

\* `const [block, tx] = await Promise.all([...])` inside the callback of
\* announcement k: a result is bound in the callback that asked for it.
Settle(slots, k, read, result) == [slots EXCEPT ![k][read] = <<result>>]

\* Lines 473-485: queryFilter resolves with the events of the range; each is
\* run through the matcher, and the block and the transaction of every match
\* are requested, all at once.
LogsQueryResponse ==
  /\ scanPc = "logs"
  /\ LET events == SelectIndexes(Len(ledger), logQueries[Len(logQueries)])
         kept == {k \in 1..Len(events) : IsKept(MatchEvent(events[k]))}
     IN /\ logEvents' = events
        /\ matched' = matched \o events
        /\ readSlots' = [k \in 1..Len(events) |->
                           Slot(k \notin kept)]
        /\ pendingReads' = kept \X {"block", "tx"}
  /\ scanPc' = "reads"
  /\ UNCHANGED <<scanArgs, graphOutcome, logOutcome, logQueries, scanResult, warnings>>
  /\ UNCHANGED <<envVars, ledgerVars, fetchVars, matchVars>>

\* queryFilter rejects: userAnnouncementsFromLogs, and scan with it, rejects.
LogsQueryFailure ==
  /\ scanPc = "logs"
  /\ logOutcome' = "queryFailed"
  /\ scanResult' = Rejected
  /\ scanPc' = "done"
  /\ UNCHANGED <<scanArgs, graphOutcome, logQueries, logEvents, pendingReads, readSlots, matched,
                 warnings>>
  /\ UNCHANGED <<envVars, ledgerVars, fetchVars, matchVars>>

\* Line 485: one of the reads in flight resolves, in any order.
ReadComplete ==
  /\ scanPc = "reads"
  /\ \E rd \in pendingReads :
       /\ pendingReads' = pendingReads \ {rd}
       /\ readSlots' = Settle(readSlots, rd[1], rd[2], ReadResult(logEvents[rd[1]], rd[2]))
  /\ UNCHANGED <<scanPc, scanArgs, graphOutcome, logOutcome, logQueries, logEvents,
                 matched, scanResult, warnings>>
  /\ UNCHANGED <<envVars, ledgerVars, fetchVars, matchVars>>

\* A getBlock or getTransaction read rejects: Promise.all, and scan, rejects.
ReadFailure ==
  /\ scanPc = "reads"
  /\ pendingReads # {}
  /\ logOutcome' = "readFailed"
  /\ scanResult' = Rejected
  /\ scanPc' = "done"
  /\ UNCHANGED <<scanArgs, graphOutcome, logQueries, logEvents, pendingReads, readSlots, matched,
                 warnings>>
  /\ UNCHANGED <<envVars, ledgerVars, fetchVars, matchVars>>

RECURSIVE SettledAnnouncements(_, _)
\* Lines 486-499: the UserAnnouncement each callback returns from its event
\* and its two reads, in the order of the events, the nulls filtered out.
SettledAnnouncements(events, slots) ==
  IF events = <<>> THEN <<>>
  ELSE LET i == Head(events)
           rest == SettledAnnouncements(Tail(events), Tail(slots))
       IN IF Head(slots).isNull THEN rest
          ELSE <<[randomNumber |-> MatchEvent(i).randomNumber,
                  receiver |-> ledger[i].receiver, amount |-> ledger[i].amount,
                  token |-> GetAddress(ledger[i].token).val,
                  from |-> Head(slots).tx[1].from, txHash |-> ledger[i].txHash,
                  timestamp |-> Str(Head(slots).block[1].timestamp),
                  isWithdrawn |-> FALSE]>> \o rest

\* Lines 497-499 and 442/453: every read is in; the nulls are filtered out and
\* scan resolves with the list.
ScanLogsFinish ==
  /\ scanPc = "reads"
  /\ pendingReads = {}
  /\ logOutcome' = "ok"
  /\ scanResult' = Resolved(SettledAnnouncements(logEvents, readSlots))
  /\ scanPc' = "done"
  /\ UNCHANGED <<scanArgs, graphOutcome, logQueries, logEvents, pendingReads, readSlots, matched,
                 warnings>>
  /\ UNCHANGED <<envVars, ledgerVars, fetchVars, matchVars>>

Init == MatchIdle /\ FetchIdle /\ UmbraInit

Next ==
  \/ Send(SendTokens, {Str(SendAmount)}, RecipientIds, {<<>>}, {2})
  \/ ScanStart /\ UNCHANGED opVars
  \/ FetchRequest /\ UNCHANGED <<matchVars, umbraVars>>
  \/ FetchResponse /\ UNCHANGED <<matchVars, umbraVars>>
  \/ FetchFailure /\ UNCHANGED <<matchVars, umbraVars>>
  \/ ScanAfterGraph /\ UNCHANGED opVars
  \/ LogsQueryResponse /\ UNCHANGED opVars
  \/ LogsQueryFailure /\ UNCHANGED opVars
  \/ ReadComplete /\ UNCHANGED opVars
  \/ ReadFailure /\ UNCHANGED opVars
  \/ ScanLogsFinish /\ UNCHANGED opVars

Spec == Init /\ [][Next]_vars

\* ------------------------------------------------------------------------
\* The constructor and parseChainConfig
\* ------------------------------------------------------------------------

\* !x
Falsy(x) ==
  \/ x.t = "undefined"
  \/ x.t = "number" /\ (x.kind = "NaN" \/ (x.kind = "integer" /\ x.n = 0))
  \/ x.t = "boolean" /\ x.n = 0
  \/ x.t = "string" /\ x.kind = ""

\* Number.isInteger(x), for x of any type.
IsInteger(x) == x.t = "number" /\ x.kind = "integer"

\* The contract address, the same on all supported networks.
UmbraAddress == ChecksumAddr(CurveOrder + 4)

\* chainConfigs: the built-in configurations by chain ID.
SupportedChainIds == {1, 4, 137, 1337}
BuiltInConfig(id) ==
  [chainId |-> JsNumber(id), umbraAddress |-> UmbraAddress,
   startBlock |-> JsNumber(CASE id = 1 -> 12343914
                             [] id = 137 -> 20717318
                             [] OTHER -> 8505089),
   subgraphUrl |-> CASE id = 1 -> JsString("https://api.thegraph.com/subgraphs/name/scopelift/umbramainnet")
                     [] id = 137 -> JsString("https://api.thegraph.com/subgraphs/name/scopelift/umbrapolygon")
                     [] OTHER -> JsBoolean(FALSE)]

\* A custom ChainConfig object as a caller passes it.
CustomConfig(chainId, startBlock, subgraphUrl, umbraAddress) ==
  [t |-> "object", chainId |-> chainId, startBlock |-> startBlock,
   subgraphUrl |-> subgraphUrl, umbraAddress |-> umbraAddress]

\* Mutant: the start block is only required to be a number.
IsValidStartBlockAnyNumber(startBlock) == startBlock.t = "number"

\* typeof startBlock === 'number' && startBlock >= 0
IsValidStartBlock(startBlock) ==
  /\ startBlock.t = "number"
  /\ startBlock.kind # "NaN"
  /\ startBlock.n >= 0

\* parseChainConfig(chainConfig): the configuration to store, or Throw.
ParseChainConfig(input) ==
  IF input.t # "object" /\ Falsy(input) THEN Throw
  ELSE IF input.t = "number"
  THEN IF input.kind = "integer" /\ input.n \in SupportedChainIds
       THEN Ok(BuiltInConfig(input.n))
       ELSE Throw
  ELSE IF input.t # "object"
  THEN Throw   \* its fields are undefined: the start block is invalid
  ELSE IF ~IsValidStartBlock(input.startBlock) THEN Throw
  ELSE IF ~IsInteger(input.chainId) THEN Throw
  ELSE IF input.subgraphUrl # JsBoolean(FALSE) /\ input.subgraphUrl.t # "string" THEN Throw
  ELSE IF ~GetAddress(input.umbraAddress).ok THEN Throw
  ELSE Ok([chainId |-> input.chainId, umbraAddress |-> GetAddress(input.umbraAddress).val,
           startBlock |-> input.startBlock, subgraphUrl |-> input.subgraphUrl])

\* What callers pass to the constructor: numbers, other primitives, and
\* custom configs with every combination of well- and ill-typed fields.
ConfigInputs ==
  {JsNumber(n) : n \in SupportedChainIds \cup {0, 5, -1}}
    \cup {JsFraction(1), JsNaN, JsUndefined, JsString("1"), JsString(""),
          JsBoolean(TRUE), JsBoolean(FALSE)}
    \cup {CustomConfig(c, b, u, a) :
            c \in {JsNumber(5), JsFraction(5), JsNaN, JsString("5"), JsUndefined},
            b \in {JsNumber(-1), JsNumber(0), JsNumber(5), JsFraction(-1),
                   JsFraction(0), JsNaN, JsString("5"), JsUndefined},
            u \in {JsBoolean(FALSE), JsBoolean(TRUE),
                   JsString("https://example.com/subgraph"), JsString(""),
                   JsNumber(0), JsUndefined},
            a \in {UmbraAddress, LowerAddr(UmbraAddress.a), BadAddr}}

\* No instance yet: the constructor has not run.
NoChainConfig == [chainId |-> JsUndefined]
UmbraNew ==
  /\ chainConfig = NoChainConfig
  /\ hasWindow = FALSE
  /\ ledger = <<>>
  /\ sends = <<>>
  /\ sendOutcome = "none"
  /\ tokenBalance = 0
  /\ ethBalance = 0
  /\ OpsIdle
  /\ scanPc = "off"
  /\ scanArgs = NoScanArgs
  /\ graphOutcome = "none"
  /\ logOutcome = "none"
  /\ logQueries = <<>>
  /\ logEvents = <<>>
  /\ pendingReads = {}
  /\ readSlots = <<>>
  /\ matched = <<>>
  /\ scanResult = Pending
  /\ warnings = 0

\* new Umbra(provider, chainConfig): the parsed configuration is stored, or
\* the constructor throws and there is no instance.
Construct ==
  /\ scanPc = "off"
  /\ opCall = NoCall
  /\ \E input \in ConfigInputs :
       LET parsed == ParseChainConfig(input)
       IN /\ opCall' = [op |-> "new", chainConfig |-> input]
          /\ IF parsed.ok
             THEN /\ chainConfig' = parsed.val
                  /\ opOutcome' = "constructed"
                  /\ scanPc' = "idle"
             ELSE /\ opOutcome' = "rejected"
                  /\ UNCHANGED <<chainConfig, scanPc>>
  /\ UNCHANGED <<hasWindow, ledger, sends, sendOutcome, tokenBalance, ethBalance,
                 opTrace, opTxs, scanArgs, graphOutcome, logOutcome, logQueries,
                 logEvents, pendingReads, readSlots, matched, scanResult, warnings>>
  /\ UNCHANGED <<fetchVars, matchVars>>

\* ------------------------------------------------------------------------
\* withdraw and withdrawOnBehalf
\* ------------------------------------------------------------------------

\* BigNumber.from(x) for a JavaScript value: an integer converts, anything
\* else of the model (a fraction, NaN, a string that is no number) throws.
BigNumberOf(x) == IF IsInteger(x) THEN Ok(x.n) ELSE Throw

\* The gas limit of a plain transfer: `overrides.gasLimit || '21000'`.
DefaultGasLimit == 21000

\* new Wallet(spendingPrivateKey): throws unless the key is a private key.
NewWallet(key) ==
  IF key.kind = "priv" /\ key.k \in Scalars
  THEN Ok([key |-> key, address |-> AddressOf([priv |-> key.k, pub |-> key.k])])
  ELSE Throw

\* The withdraw calls considered: the arguments a caller passes, with the
\* balance of the stealth address and the gas price the provider reports.
WithdrawCalls ==
  [op : {"withdraw"},
   spendingPrivateKey : {PrivKey(2), BadKey},
   token : SendTokens \cup {LowerAddr(EthAddress.a)},
   destination : {ChecksumAddr(1), LowerAddr(1), BadAddr},
   overrides : [gasPrice : {JsUndefined, JsNumber(0), JsNumber(10), JsString("fast")},
                gasLimit : {JsUndefined, JsNumber(0), JsNumber(30000), JsString("high")},
                nonce : {JsUndefined, JsNumber(0), JsNumber(5)}],
   balance : {100000, 210000, 300000},
   networkGasPrice : {10, 20}]

\* Mutant: the insufficient-balance check is skipped.
CostExceedsNever(txCost, balance) == FALSE

\* txCost.gt(ethBalance)
CostExceeds(txCost, balance) == txCost > balance

\* Mutant: the whole balance is transferred.
TransferValueWholeBalance(balance, txCost) == balance

\* ethBalance.sub(txCost)
TransferValue(balance, txCost) == balance - txCost

\* The outcome, steps and submissions of one call.
OpResult(outcome, trace, txs) == [outcome |-> outcome, trace |-> trace, txs |-> txs]

\* withdraw(spendingPrivateKey, token, destination, overrides) where the
\* stealth address holds call.balance and the provider reports
\* call.networkGasPrice.
WithdrawResult(call) ==
  LET dest == GetAddress(call.destination)
      stealthWallet == NewWallet(call.spendingPrivateKey)
      eth == IsEth(call.token)
      overrides == call.overrides
      ownPrice == ~Falsy(overrides.gasPrice)
      gasPrice == IF ownPrice THEN BigNumberOf(overrides.gasPrice)
                  ELSE Ok(call.networkGasPrice)
      gasLimit == IF Falsy(overrides.gasLimit) THEN Ok(DefaultGasLimit)
                  ELSE BigNumberOf(overrides.gasLimit)
      reads == <<"getBalance">> \o (IF ownPrice THEN <<>> ELSE <<"getGasPrice">>)
  IN IF ~dest.ok THEN OpResult("invalid destination", <<>>, <<>>)
     ELSE IF ~stealthWallet.ok THEN OpResult("invalid private key", <<>>, <<>>)
     ELSE IF ~eth.ok THEN OpResult("invalid token", <<>>, <<>>)
     ELSE IF ~eth.val
     THEN OpResult("submitted", <<"withdrawToken">>,
                   <<[call |-> "withdrawToken", signer |-> stealthWallet.val.address,
                      destination |-> dest.val, token |-> call.token,
                      overrides |-> overrides]>>)
     ELSE IF ~gasPrice.ok THEN OpResult("invalid gas price", <<"getBalance">>, <<>>)
     ELSE IF ~gasLimit.ok THEN OpResult("invalid gas limit", reads, <<>>)
     ELSE LET txCost == gasPrice.val * gasLimit.val
          IN IF CostExceeds(txCost, call.balance)
             THEN OpResult("insufficient funds", reads, <<>>)
             ELSE OpResult("submitted", reads \o <<"sendTransaction">>,
                           <<[call |-> "sendTransaction",
                              signer |-> stealthWallet.val.address,
                              to |-> dest.val,
                              value |-> TransferValue(call.balance, txCost),
                              gasPrice |-> gasPrice.val, gasLimit |-> gasLimit.val,
                              nonce |-> IF Falsy(overrides.nonce) THEN JsUndefined
                                        ELSE overrides.nonce]>>)

\* The instance exists and no call has been made on it yet.
Callable == scanPc = "idle" /\ opCall.op \in {"none", "new"}

\* One call of a send-free operation: its arguments and what came of it.
Called(call, result) ==
  /\ opCall' = call
  /\ opOutcome' = result.outcome
  /\ opTrace' = result.trace
  /\ opTxs' = result.txs
  /\ UNCHANGED <<chainConfig, hasWindow, ledger, sends, sendOutcome, tokenBalance,
                 ethBalance, scanVars, fetchVars, matchVars>>

Withdraw ==
  /\ Callable
  /\ \E call \in WithdrawCalls : Called(call, WithdrawResult(call))

\* The withdrawOnBehalf calls considered.
OnBehalfCalls ==
  [op : {"withdrawOnBehalf"},
   stealthAddr : {ChecksumAddr(2), LowerAddr(2), BadAddr},
   destination : {ChecksumAddr(2), LowerAddr(2), BadAddr},
   token : {ChecksumAddr(2), LowerAddr(2), BadAddr},
   sponsor : {ChecksumAddr(2), LowerAddr(2), BadAddr},
   sponsorFee : {JsNumber(0), JsNumber(1), JsString("fee")}]

\* withdrawOnBehalf(signer, stealthAddr, destination, token, sponsor,
\* sponsorFee, v, r, s): the four addresses are normalised, in this order,
\* and the call is forwarded to withdrawTokenOnBehalf.
WithdrawOnBehalfResult(call) ==
  IF ~GetAddress(call.stealthAddr).ok THEN OpResult("invalid stealthAddr", <<>>, <<>>)
  ELSE IF ~GetAddress(call.destination).ok THEN OpResult("invalid destination", <<>>, <<>>)
  ELSE IF ~GetAddress(call.token).ok THEN OpResult("invalid token", <<>>, <<>>)
  ELSE IF ~GetAddress(call.sponsor).ok THEN OpResult("invalid sponsor", <<>>, <<>>)
  ELSE OpResult("submitted", <<"withdrawTokenOnBehalf">>,
                <<[call |-> "withdrawTokenOnBehalf",
                   stealthAddr |-> GetAddress(call.stealthAddr).val,
                   destination |-> GetAddress(call.destination).val,
                   token |-> GetAddress(call.token).val,
                   sponsor |-> GetAddress(call.sponsor).val,
                   sponsorFee |-> call.sponsorFee]>>)

WithdrawOnBehalf ==
  /\ Callable
  /\ \E call \in OnBehalfCalls : Called(call, WithdrawOnBehalfResult(call))

\* ------------------------------------------------------------------------
\* signWithdraw
\* ------------------------------------------------------------------------

\* Strings in hex format with 0x prefix: of whole bytes (b names the bytes,
\* 0 for none: '0x'), or with an odd number of digits.
JsHex(b) == [t |-> "string", n |-> b, kind |-> "hex"]
JsOddHex == [t |-> "string", n |-> 0, kind |-> "oddhex"]

\* isHexString(x)
IsHexString(x) == x.t = "string" /\ x.kind \in {"hex", "oddhex"}

\* AddressZero, and an omitted trailing argument.
AddressZero == ChecksumAddr(0)
Omitted == [form |-> "omitted", a |-> 0]

\* defaultAbiCoder.encode(['uint256', 'address', 'address', 'address',
\* 'address', 'uint256', 'address', 'bytes'], [...]): the ordered tuple, or
\* Throw when a value does not fit its type (bytes: a hex string of whole
\* bytes or a non-negative integer).
AbiEncode(chainId, contract, acceptor, token, sponsor, sponsorFee, hook, data) ==
  IF chainId.n < 0 THEN Throw
  ELSE IF ~BigNumberOf(sponsorFee).ok \/ sponsorFee.n < 0 THEN Throw
  ELSE IF ~(data.kind = "hex" \/ (IsInteger(data) /\ data.n >= 0)) THEN Throw
  ELSE Ok(<<chainId.n, contract, acceptor, token, sponsor, sponsorFee.n, hook, data.n>>)

\* keccak256 of an encoding, taken to be collision free.
Keccak256(encoding) == [keccak |-> encoding]

\* stealthWallet.signMessage(arrayify(digest)), split into a signature of the
\* digest that verifies against the wallet's address.
SignMessage(wallet, digest) == [signer |-> wallet.address, digest |-> digest]

\* Mutant: the call data is not checked.
IsValidDataAlways(data) == TRUE

\* typeof data === 'string' && isHexString(data)
IsValidData(data) == data.t = "string" /\ IsHexString(data)

\* signWithdraw(spendingPrivateKey, chainId, contract, acceptor, token,
\* sponsor, sponsorFee, hook, data).
SignWithdrawResult(call) ==
  LET hook == IF call.hook = Omitted THEN AddressZero ELSE call.hook
      data == IF call.data = JsUndefined THEN JsHex(0) ELSE call.data
      stealthWallet == NewWallet(call.spendingPrivateKey)
  IN IF ~GetAddress(call.contract).ok THEN OpResult("invalid contract", <<>>, <<>>)
     ELSE IF ~GetAddress(call.acceptor).ok THEN OpResult("invalid acceptor", <<>>, <<>>)
     ELSE IF ~GetAddress(call.sponsor).ok THEN OpResult("invalid sponsor", <<>>, <<>>)
     ELSE IF ~GetAddress(call.token).ok THEN OpResult("invalid token", <<>>, <<>>)
     ELSE IF ~GetAddress(hook).ok THEN OpResult("invalid hook", <<>>, <<>>)
     ELSE IF ~IsInteger(call.chainId) THEN OpResult("invalid chainId", <<>>, <<>>)
     ELSE IF ~IsValidData(data) THEN OpResult("invalid data", <<>>, <<>>)
     ELSE IF ~stealthWallet.ok THEN OpResult("invalid private key", <<>>, <<>>)
     ELSE LET encoding == AbiEncode(call.chainId, GetAddress(call.contract).val,
                                    GetAddress(call.acceptor).val,
                                    GetAddress(call.token).val,
                                    GetAddress(call.sponsor).val, call.sponsorFee,
                                    GetAddress(hook).val, data)
          IN IF ~encoding.ok THEN OpResult("invalid encoding", <<>>, <<>>)
             ELSE OpResult("signed", <<"signMessage">>,
                           <<[call |-> "signature",
                              signature |-> SignMessage(stealthWallet.val,
                                                        Keccak256(encoding.val))]>>)

\* The signWithdraw calls considered.
SignCalls ==
  [op : {"signWithdraw"},
   spendingPrivateKey : {PrivKey(1), PrivKey(2), BadKey},
   chainId : {JsNumber(1), JsNumber(-1), JsFraction(1), JsString("1")},
   contract : {UmbraAddress, LowerAddr(UmbraAddress.a), BadAddr},
   acceptor : {ChecksumAddr(1), BadAddr},
   token : {TokenAddress, BadAddr},
   sponsor : {ChecksumAddr(3), BadAddr},
   sponsorFee : {JsNumber(0), JsNumber(1), JsString("fee")},
   hook : {Omitted, LowerAddr(0), ChecksumAddr(4), BadAddr},
   data : {JsUndefined, JsHex(0), JsHex(1), JsOddHex, JsString("data"), JsNumber(1)}]

\* signWithdraw is static: it needs no instance.
SignWithdraw ==
  /\ opCall = NoCall \/ Callable
  /\ \E call \in SignCalls : Called(call, SignWithdrawResult(call))

\* ------------------------------------------------------------------------
\* generatePrivateKeys
\* ------------------------------------------------------------------------

\* Mutant: the base message is signed on every chain.
MessageForNoSuffix(chainId) == <<"Sign this message to access your Umbra account.">>

\* chainId === 1 ? baseMessage : `${baseMessage}\n\nChain ID: ${chainId}`
MessageFor(chainId) == IF chainId = 1 THEN <<"Sign this message to access your Umbra account.">> ELSE <<"Sign this message to access your Umbra account.", "Chain ID", chainId>>

\* provider.send('personal_sign', [message, account]): what the wallet behind
\* the provider answers. An "rfc6979" wallet signs deterministically, a
\* "randomised" one draws a fresh nonce for every signature (the two
\* signature halves are ideal: they agree only for the same account, message
\* and nonce); a "short" wallet answers a hex string that is no 65-byte
\* signature and a "text" wallet a string that is not hex.
PersonalSign(wallet, account, message, nonce) ==
  LET k == IF wallet = "randomised" THEN nonce ELSE 0
      half(name) == [half |-> name, account |-> account.a, message |-> message, nonce |-> k]
  IN [hex |-> wallet # "text",
      length |-> IF wallet \in {"rfc6979", "randomised"} THEN 132 ELSE 66,
      portion1 |-> half("r"), portion2 |-> half("s"), lastByte |-> 27]

\* generatePrivateKeys(signer) on an instance whose provider is connected to
\* the network call.networkChainId: sign the message, check the signature,
\* split it and hash each half (sha256, collision free) into a private key.
GeneratePrivateKeysResult(call) ==
  LET message == MessageFor(call.networkChainId)
      userAddress == ChecksumAddr(call.signer)
      signature == PersonalSign(call.wallet, LowerAddr(userAddress.a), message, call.nonce)
      isValidSignature == signature.hex /\ signature.length = 132
      reassembled == [hex |-> TRUE, length |-> 2 + 64 + 64 + 2,
                      portion1 |-> signature.portion1,
                      portion2 |-> signature.portion2,
                      lastByte |-> signature.lastByte]
      spendingKeyPair == NewKeyPair(PrivKey([sha256 |-> signature.portion1]))
      viewingKeyPair == NewKeyPair(PrivKey([sha256 |-> signature.portion2]))
      trace == <<"getNetwork", "getAddress", "personal_sign">>
  IN IF ~isValidSignature THEN OpResult("invalid signature", trace, <<>>)
     ELSE IF reassembled # signature THEN OpResult("incorrectly parsed", trace, <<>>)
     ELSE OpResult("generated", trace,
                   <<[call |-> "personal_sign", message |-> message,
                      signature |-> signature,
                      spendingKeyPair |-> spendingKeyPair.val,
                      viewingKeyPair |-> viewingKeyPair.val]>>)

\* The networks the provider is connected to.
Networks == {1, 4, 137}

GeneratePrivateKeys ==
  /\ Callable
  /\ \E call \in [op : {"generatePrivateKeys"}, signer : {1, 2},
                   wallet : {"rfc6979", "randomised", "short", "text"},
                   nonce : {1, 2}, networkChainId : Networks] :
       Called(call, GeneratePrivateKeysResult(call))

\* ------------------------------------------------------------------------
\* computeStealthPrivateKey
\* ------------------------------------------------------------------------

\* keyPair.mulPrivateKey(randomNumber): the key pair of the scalar
\* (d * r) mod n. Throws without a private key and on a random number that is
\* no hex string of a scalar.
MulPrivateKey(kp, randomNumber) ==
  IF kp.priv = 0 \/ ~IsHexString(randomNumber) \/ randomNumber.kind # "hex" THEN Throw
  ELSE IF randomNumber.n \notin Scalars THEN Throw
  ELSE LET d == (kp.priv * randomNumber.n) % CurveOrder
       IN Ok([priv |-> d, pub |-> d])

\* Mutant: the spending private key itself is returned.
ComputeStealthPrivateKeyNoMul(spendingPrivateKey, randomNumber) ==
  LET spendingPrivateKeyPair == NewKeyPair(spendingPrivateKey)
  IN IF ~spendingPrivateKeyPair.ok THEN Throw
     ELSE IF ~MulPrivateKey(spendingPrivateKeyPair.val, randomNumber).ok THEN Throw
     ELSE Ok(PrivKey(spendingPrivateKeyPair.val.priv))

\* computeStealthPrivateKey(spendingPrivateKey, randomNumber)
ComputeStealthPrivateKey(spendingPrivateKey, randomNumber) ==
  LET spendingPrivateKeyPair == NewKeyPair(spendingPrivateKey)
  IN IF ~spendingPrivateKeyPair.ok THEN Throw
     ELSE LET stealthFromPrivate == MulPrivateKey(spendingPrivateKeyPair.val, randomNumber)
          IN IF ~stealthFromPrivate.ok THEN Throw
             ELSE Ok(PrivKey(stealthFromPrivate.val.priv))

\* computeStealthPrivateKey is static: it needs no instance.
ComputeStealthKey ==
  /\ opCall = NoCall \/ Callable
  /\ \E spendingPrivateKey \in Keys,
        randomNumber \in {JsHex(r) : r \in 0..(CurveOrder - 1)} \cup {JsOddHex, JsString("random")} :
       LET stealth == ComputeStealthPrivateKey(spendingPrivateKey, randomNumber)
       IN Called([op |-> "computeStealthPrivateKey",
                  spendingPrivateKey |-> spendingPrivateKey,
                  randomNumber |-> randomNumber],
                 IF stealth.ok THEN OpResult("computed", <<>>, <<stealth.val>>)
                 ELSE OpResult("threw", <<>>, <<>>))

InitOps == MatchIdle /\ FetchIdle /\ UmbraNew

NextOps ==
  \/ Construct
  \/ Withdraw
  \/ WithdrawOnBehalf
  \/ SignWithdraw
  \/ GeneratePrivateKeys
  \/ ComputeStealthKey

SpecOps == InitOps /\ [][NextOps]_vars

\* ------------------------------------------------------------------------
\* send on its own: every token, amount, recipient and sender balance
\* ------------------------------------------------------------------------

\* The balances the sender starts with.
SenderEthBalances == 0..(Toll + SendAmount + Toll)
SenderTokenBalances == 0..SendAmount

\* An instance on mainnet and a sender with some balance of each asset.
UmbraFunded ==
  /\ chainConfig = [chainId |-> 1, startBlock |-> 1, subgraphUrl |-> NoSubgraph]
  /\ hasWindow = FALSE
  /\ ledger = <<>>
  /\ sends = <<>>
  /\ sendOutcome = "none"
  /\ tokenBalance \in SenderTokenBalances
  /\ ethBalance \in SenderEthBalances
  /\ OpsIdle
  /\ scanPc = "idle"
  /\ scanArgs = NoScanArgs
  /\ graphOutcome = "none"
  /\ logOutcome = "none"
  /\ logQueries = <<>>
  /\ logEvents = <<>>
  /\ pendingReads = {}
  /\ readSlots = <<>>
  /\ matched = <<>>
  /\ scanResult = Pending
  /\ warnings = 0

InitSend == MatchIdle /\ FetchIdle /\ UmbraFunded

NextSend == Send(SendTokens, SendAmounts, RecipientIds, SendOverrides, SendScalars)

SpecSend == InitSend /\ [][NextSend]_vars

\* One call isAnnouncementForUser(spendingPublicKey, viewingPrivateKey, ann).
Match ==
  /\ matchPc = "ready"
  /\ \E spk \in Keys, vpk \in Keys :
       /\ matchArgs' = [spendingPublicKey |-> spk, viewingPrivateKey |-> vpk]
       /\ matchResult' = IsAnnouncementForUser(spk, vpk, matchOrigin.announcement)
  /\ matchPc' = "done"
  /\ UNCHANGED matchOrigin

MatchNext == Match /\ UNCHANGED <<fetchVars, umbraVars>>

InitMatch == MatchInit /\ FetchIdle /\ UmbraIdle

SpecMatch == InitMatch /\ [][MatchNext]_vars

\* ------------------------------------------------------------------------
\* Claims about isAnnouncementForUser (checked under SpecMatch)
\* ------------------------------------------------------------------------

NoMatch == [isForUser |-> FALSE, randomNumber |-> EmptyString]

\* The payload the matcher decrypts, when pkx names a point.
MatchPayload(ann) ==
  [ephemeralPublicKey |-> GetUncompressedFromX(ann.pkx).val,
   ciphertext |-> ann.ciphertext]

\* Decryption of {key rebuilt from pkx, ciphertext} with vpk succeeds with r.
DecryptsTo(vpk, ann, r) ==
  /\ GetUncompressedFromX(ann.pkx).ok
  /\ NewKeyPair(vpk).ok
  /\ Decrypt(NewKeyPair(vpk).val, MatchPayload(ann)) = Ok(r)

\* One of the four steps of the matcher fails on these inputs.
MatcherStepFails(spk, vpk, ann) ==
  \/ ~GetUncompressedFromX(ann.pkx).ok
  \/ ~NewKeyPair(vpk).ok
  \/ ~Decrypt(NewKeyPair(vpk).val, MatchPayload(ann)).ok
  \/ ~NewKeyPair(spk).ok
  \/ ~GetAddress(ann.receiver).ok

\* C7: isAnnouncementForUser never throws; whenever uncompression, key
\* construction, decryption or address normalisation fails, it returns
\* {isForUser: false, randomNumber: ''}.
C7_MatcherNeverThrows ==
  matchPc = "done" =>
    /\ matchResult.ok
    /\ MatcherStepFails(matchArgs.spendingPublicKey, matchArgs.viewingPrivateKey,
                        matchOrigin.announcement)
         => matchResult.val = NoMatch

\* C7 witness: a call on an announcement with an invalid pkx, one with a
\* malformed receiver and undecryptable ciphertext, answered with the non-match.
C7_Witness ==
  /\ matchPc = "done"
  /\ ~matchOrigin.built
  /\ ~GetUncompressedFromX(matchOrigin.announcement.pkx).ok
  /\ matchOrigin.announcement.receiver = BadAddr
  /\ matchOrigin.announcement.ciphertext = BadCiphertext
  /\ matchResult = Ok(NoMatch)

\* C8: an announcement a sender built for recipient keys A = (d, v), matched
\* against the keys of a different recipient B, gives isForUser = false and
\* does not throw.
C8_OtherRecipientNoMatch ==
  (/\ matchPc = "done"
   /\ matchOrigin.built
   /\ matchArgs.spendingPublicKey.kind # "bad"
   /\ matchArgs.viewingPrivateKey.kind = "priv"
   /\ <<matchArgs.spendingPublicKey.k, matchArgs.viewingPrivateKey.k>>
        # <<matchOrigin.d, matchOrigin.v>>)
    => /\ matchResult.ok
       /\ ~matchResult.val.isForUser

\* C8 witness: recipient B shares A's viewing key but not A's spending key, so
\* the random number decrypts and only the address comparison tells them apart.
C8_Witness ==
  /\ matchPc = "done"
  /\ matchOrigin.built
  /\ matchArgs.spendingPublicKey.kind = "pub"
  /\ matchArgs.spendingPublicKey.k # matchOrigin.d
  /\ matchArgs.viewingPrivateKey = PrivKey(matchOrigin.v)
  /\ matchResult = Ok([isForUser |-> FALSE, randomNumber |-> Hex(matchOrigin.r)])

\* The condition C9 names, for a candidate random number r.
C9_Condition(spk, vpk, ann, r) ==
  /\ DecryptsTo(vpk, ann, r)
  /\ NewKeyPair(spk).ok
  /\ GetAddress(ann.receiver).ok
  /\ AddressOf(MulPublicKey(NewKeyPair(spk).val, r)) = GetAddress(ann.receiver).val

\* C9: isForUser is true exactly when the ciphertext decrypts under the
\* viewing private key to some r and the address of spendingPublicKey * r is
\* the checksummed receiver; the returned randomNumber is then r.
C9_MatchIff ==
  matchPc = "done" =>
    LET spk == matchArgs.spendingPublicKey
        vpk == matchArgs.viewingPrivateKey
        ann == matchOrigin.announcement
    IN /\ matchResult.ok
       /\ matchResult.val.isForUser
            <=> \E r \in Scalars : C9_Condition(spk, vpk, ann, r)
       /\ \A r \in Scalars :
            C9_Condition(spk, vpk, ann, r) => matchResult.val.randomNumber = Hex(r)

\* C9 witness: a match on an announcement whose receiver is written in lower
\* case, so the comparison succeeds only through the normalisation.
C9_Witness ==
  /\ matchPc = "done"
  /\ matchOrigin.announcement.receiver.form = "lower"
  /\ matchResult.ok
  /\ matchResult.val.isForUser
  /\ matchResult.val.randomNumber # EmptyString

\* ------------------------------------------------------------------------
\* Claims about recursiveGraphFetch (checked under SpecFetch)
\* ------------------------------------------------------------------------

\* No two rows of a sequence carry the same identifier.
NoDuplicateId(sq) ==
  \A i, j \in 1..Len(sq) : i # j => sq[i].id # sq[j].id

\* The identifiers of a page increase strictly along it.
AscendingPage(page) ==
  \A i \in 1..(Len(page) - 1) : page[i].id < page[i + 1].id

\* C4: recursiveGraphFetch returns exactly the in-order concatenation of the
\* non-empty pages received before the first empty page, and no request
\* follows the first empty page.
C4_ReturnsConcatenation ==
  /\ \A k \in 1..(Len(pages) - 1) : pages[k] # <<>>
  /\ (Len(pages) > 0 /\ pages[Len(pages)] = <<>>) =>
        /\ fetchPc = "returned"
        /\ Len(requests) = Len(pages)
        /\ inFlight = 0
  /\ fetchPc = "returned" =>
        /\ pages[Len(pages)] = <<>>
        /\ fetchResult = Flatten(SubSeq(pages, 1, Len(pages) - 1))

\* C4 witness: a run that returned after two non-empty pages.
C4_Witness ==
  /\ fetchPc = "returned"
  /\ Len(pages) = 3
  /\ Len(fetchResult) >= 3

\* C5 as stated: the accumulated sequence never holds two rows with the same
\* identifier, for every indexer answering with at most PageSize rows above
\* the cursor (the indexers of SpecFetch).
C5_NoDuplicateAnyIndexer == NoDuplicateId(before)

\* C5 amended: the accumulated sequence never holds two rows with the same
\* identifier, for every indexer answering each request with at most PageSize
\* rows above the cursor in strictly ascending identifier order.
C5_NoDuplicateAscending ==
  (\A k \in 1..Len(pages) : AscendingPage(pages[k])) => NoDuplicateId(before)

\* C5 witness: an indexer free in its order answered two non-empty ascending
\* pages, the first one full.
C5_Witness ==
  /\ indexer.kind = "any"
  /\ Len(pages) >= 2
  /\ Len(pages[1]) = PageSize
  /\ pages[2] # <<>>
  /\ \A k \in 1..Len(pages) : AscendingPage(pages[k])
  /\ Len(before) > PageSize

\* C6: at most one page request is in flight, and request k+1 is issued only
\* once page k has been received and appended: every request's cursor is
\* computed from the concatenation of all the pages before it, and every
\* request but one in flight (or the one that failed) has been answered.
C6_Sequential ==
  /\ inFlight \in {0, 1}
  /\ Len(requests) =
       Len(pages) + inFlight + (IF fetchPc = "rejected" THEN 1 ELSE 0)
  /\ \A k \in 1..Len(requests) :
       requests[k] = FromId(Flatten(SubSeq(pages, 1, k - 1)))
  /\ fetchPc = "request" => (inFlight = 0 /\ before = Flatten(pages))

\* C6 witness: the third request is in flight after two pages were appended.
C6_Witness ==
  /\ fetchPc = "await"
  /\ inFlight = 1
  /\ Len(requests) = 3
  /\ Len(pages) = 2
  /\ Len(before) >= 2

\* ------------------------------------------------------------------------
\* Claims about scan (checked under Spec)
\* ------------------------------------------------------------------------

\* The UserAnnouncement of ledger event i: its own fields, the sender of its
\* own transaction and the timestamp of its own block.
UserAnnouncementOfEvent(i) ==
  [randomNumber |-> MatchEvent(i).randomNumber, receiver |-> ledger[i].receiver,
   amount |-> ledger[i].amount, token |-> GetAddress(ledger[i].token).val,
   from |-> ledger[i].from, txHash |-> ledger[i].txHash,
   timestamp |-> Str(ledger[i].timestamp), isWithdrawn |-> FALSE]

RECURSIVE UserAnnouncementsOf(_)
\* The announcements of the events of a list that are for the scanning user,
\* in the order of the list.
UserAnnouncementsOf(events) ==
  IF events = <<>> THEN <<>>
  ELSE IF MatchEvent(Head(events)).isForUser
       THEN <<UserAnnouncementOfEvent(Head(events))>> \o UserAnnouncementsOf(Tail(events))
       ELSE UserAnnouncementsOf(Tail(events))

\* The block range of the scan call, from its overrides and the chain's
\* start block.
ScanRange ==
  [startBlock |-> OrElse(scanArgs.overrides.startBlock, BlockNumber(chainConfig.startBlock)),
   endBlock |-> OrElse(scanArgs.overrides.endBlock, Latest)]

\* C1: when the subgraph is configured, fetch is available and the indexed
\* query fails on a chain other than 137, scan issues the raw-log query over
\* its own start/end block range, once, and settles as that retrieval does:
\* it resolves with the list userAnnouncementsFromLogs produced.
C1_FallbackToRawLog ==
  (graphOutcome = "queryFailed" /\ chainConfig.chainId # 137) =>
    /\ hasWindow /\ chainConfig.subgraphUrl # NoSubgraph
    /\ logQueries = <<ScanRange>>
    /\ scanPc = "done" =>
         \/ /\ logOutcome = "ok"
            /\ scanResult =
                 Resolved(UserAnnouncementsOf(SelectIndexes(Len(ledger), ScanRange)))
         \/ /\ logOutcome \in {"queryFailed", "readFailed"}
            /\ scanResult = Rejected

\* C1 witness: the indexed query failed on chain 1 and scan resolved with a
\* payment found in the logs of an overridden block range.
C1_Witness ==
  /\ graphOutcome = "queryFailed"
  /\ chainConfig.chainId = 1
  /\ scanArgs.overrides.startBlock = BlockNumber(2)
  /\ scanPc = "done"
  /\ logOutcome = "ok"
  /\ scanResult.status = "resolved"
  /\ Len(scanResult.userAnnouncements) = 1

\* C2: on chain 137 scan never issues a raw-log query; when the indexed query
\* fails or is not available it resolves with an empty list after one
\* warning, and it never rejects.
C2_Chain137Degrades ==
  chainConfig.chainId = 137 =>
    /\ logQueries = <<>>
    /\ scanPc \notin {"logs", "reads"}
    /\ scanResult.status # "rejected"
    /\ (scanPc = "done" /\ graphOutcome # "ok") =>
         /\ scanResult = Resolved(<<>>)
         /\ warnings = 1

\* C2 witness: on chain 137 the indexed query failed while the ledger held a
\* payment, and scan resolved with the empty list and a warning.
C2_Witness ==
  /\ chainConfig.chainId = 137
  /\ graphOutcome = "queryFailed"
  /\ Len(ledger) > 0
  /\ scanPc = "done"
  /\ scanResult = Resolved(<<>>)
  /\ warnings = 1

\* C3: the raw-log fallback after an indexed-query failure is the only
\* automatic retry: a failure of the raw-log query or of its follow-up reads
\* rejects scan without another query, and a failure while post-processing
\* the rows the indexer returned rejects scan without any raw-log query.
C3_OnlyQueryFailureFallsBack ==
  /\ logOutcome \in {"queryFailed", "readFailed"} =>
       /\ scanPc = "done"
       /\ scanResult = Rejected
       /\ Len(logQueries) = 1
  /\ graphOutcome = "postFailed" =>
       /\ logQueries = <<>>
       /\ warnings = 0
       /\ scanPc = "done" => scanResult = Rejected

\* The recipient whose keys the scan call was given.
ScanUser ==
  CHOOSE u \in Recipients :
    /\ scanArgs.spendingPublicKey = PubKey(RecipientKeys(u).spend)
    /\ scanArgs.viewingPrivateKey = PrivKey(RecipientKeys(u).view)

\* The events a finished scan retrieved: every row of the subgraph on the
\* indexed path, the events of the block range on the raw-log path.
Retrieved ==
  IF graphOutcome = "ok" THEN 1..Len(ledger)
  ELSE {logEvents[k] : k \in 1..Len(logEvents)}

\* C10: scan with the keys of recipient K returns, for every retrieved
\* announcement a send addressed to K with random number r, exactly one
\* UserAnnouncement, carrying randomNumber r and the stealth address of
\* (K, r) as receiver, and none for an announcement addressed to another
\* recipient (nor for one it did not retrieve).
C10_ScanFindsPayments ==
  (scanPc = "done" /\ (graphOutcome = "ok" \/ logOutcome = "ok")) =>
    LET uas == scanResult.userAnnouncements
        Hits(i) == {k \in 1..Len(uas) : uas[k].txHash = i}
    IN /\ scanResult.status = "resolved"
       /\ \A k \in 1..Len(uas) : uas[k].txHash \in Retrieved
       /\ \A i \in Retrieved :
            IF sends[i].recipient = ScanUser
            THEN /\ Cardinality(Hits(i)) = 1
                 /\ \A k \in Hits(i) :
                      /\ uas[k].randomNumber = Hex(sends[i].r)
                      /\ GetAddress(uas[k].receiver)
                           = Ok(ChecksumAddr((RecipientKeys(ScanUser).spend * sends[i].r)
                                               % CurveOrder))
            ELSE Hits(i) = {}

\* C10 witness: the ledger holds a payment to the scanning recipient and one
\* to the other recipient, and the scan returned exactly the first.
C10_Witness ==
  /\ scanPc = "done"
  /\ graphOutcome = "ok"
  /\ Len(ledger) = 2
  /\ sends[1].recipient # ScanUser
  /\ sends[2].recipient = ScanUser
  /\ Len(scanResult.userAnnouncements) = 1
  /\ scanResult.userAnnouncements[1].txHash = 2
  /\ scanResult.userAnnouncements[1].randomNumber = Hex(sends[2].r)

\* A UserAnnouncement with its addresses in checksummed form, and the set of
\* the announcements of a list, compared address-normalised.
NormalAnnouncement(ua) ==
  [ua EXCEPT !.receiver = GetAddress(@).val, !.from = GetAddress(@).val]
AnnouncementSet(uas) == {NormalAnnouncement(uas[k]) : k \in 1..Len(uas)}

\* What each path of the scan call returns when the indexer holds one row for
\* every event of the ledger logs.
IndexedPathResult ==
  ReduceRows([i \in 1..Len(ledger) |-> SubgraphRow(i, ledger[i])],
             scanArgs.spendingPublicKey, scanArgs.viewingPrivateKey).val
RawLogPathResult == UserAnnouncementsOf(SelectIndexes(Len(ledger), ScanRange))

\* C11: with the same announcements in the indexer and in the ledger logs,
\* the list a scan returned through the indexed-query path is set-equal to
\* the list the raw-log path returns for the same keys and overrides, and the
\* list it returned through the raw-log path after an indexer outage is
\* set-equal to the list of the indexed-query path.
C11_PathsSetEqual ==
  /\ (scanPc = "done" /\ graphOutcome = "ok") =>
       AnnouncementSet(scanResult.userAnnouncements) = AnnouncementSet(RawLogPathResult)
  /\ (scanPc = "done" /\ graphOutcome = "queryFailed" /\ logOutcome = "ok") =>
       AnnouncementSet(scanResult.userAnnouncements) = AnnouncementSet(IndexedPathResult)

\* C12: within one scan call the matcher is called at most once on each
\* announcement, and each announcement contributes at most one
\* UserAnnouncement to the returned list.
C12_MatchedAtMostOnce ==
  \A i \in 1..Len(ledger) :
    /\ Cardinality({k \in 1..Len(matched) : matched[k] = i}) <= 1
    /\ Cardinality({k \in 1..Len(scanResult.userAnnouncements) :
                      scanResult.userAnnouncements[k].txHash = i}) <= 1

\* ------------------------------------------------------------------------
\* Claims about withdraw (checked under SpecOps)
\* ------------------------------------------------------------------------

\* The gas price and gas limit a withdraw call works with: the caller's
\* override when it gives one, else the provider's price and 21000.
GasPriceOf(call) ==
  IF Falsy(call.overrides.gasPrice) THEN call.networkGasPrice
  ELSE call.overrides.gasPrice.n
GasLimitOf(call) ==
  IF Falsy(call.overrides.gasLimit) THEN DefaultGasLimit
  ELSE call.overrides.gasLimit.n

\* A withdraw call of the native asset whose arguments are all well formed.
NativeWithdraw ==
  /\ opCall.op = "withdraw"
  /\ GetAddress(opCall.destination).ok
  /\ NewWallet(opCall.spendingPrivateKey).ok
  /\ IsEth(opCall.token) = Ok(TRUE)
  /\ Falsy(opCall.overrides.gasPrice) \/ IsInteger(opCall.overrides.gasPrice)
  /\ Falsy(opCall.overrides.gasLimit) \/ IsInteger(opCall.overrides.gasLimit)

\* C13: a native-asset withdraw whose gasPrice * gasLimit exceeds the balance
\* of the stealth address fails with the insufficient-funds error and
\* submits no transaction.
C13_InsufficientFundsNoSubmit ==
  (NativeWithdraw /\ GasPriceOf(opCall) * GasLimitOf(opCall) > opCall.balance) =>
    /\ opOutcome = "insufficient funds"
    /\ opTxs = <<>>
    /\ \A k \in 1..Len(opTrace) : opTrace[k] \notin {"sendTransaction", "withdrawToken"}

\* C13 witness: balance 100000, gas price 10, gas limit 21000 (cost 210000).
C13_Witness ==
  /\ NativeWithdraw
  /\ opCall.balance = 100000
  /\ GasPriceOf(opCall) = 10
  /\ GasLimitOf(opCall) = 21000
  /\ opOutcome = "insufficient funds"
  /\ opTxs = <<>>

\* C14: a native-asset withdraw that submits submits exactly one
\* transaction, to the normalised destination, with the gas price and gas
\* limit of the call and value = balance - gasPrice * gasLimit >= 0; a token
\* withdraw makes the one call withdrawToken and reads neither the balance
\* nor the gas price.
C14_WithdrawTransaction ==
  (opCall.op = "withdraw" /\ opOutcome = "submitted") =>
    /\ Len(opTxs) = 1
    /\ IF IsEth(opCall.token).val
       THEN /\ opTxs[1].call = "sendTransaction"
            /\ Cardinality({k \in 1..Len(opTrace) : opTrace[k] = "sendTransaction"}) = 1
            /\ opTxs[1].to = GetAddress(opCall.destination).val
            /\ opTxs[1].gasPrice = GasPriceOf(opCall)
            /\ opTxs[1].gasLimit = GasLimitOf(opCall)
            /\ opTxs[1].value = opCall.balance - opTxs[1].gasPrice * opTxs[1].gasLimit
            /\ opTxs[1].value >= 0
       ELSE /\ opTxs[1].call = "withdrawToken"
            /\ opTxs[1].destination = GetAddress(opCall.destination).val
            /\ opTxs[1].token = opCall.token
            /\ opTrace = <<"withdrawToken">>

\* C14 witness: a native-asset withdraw to a lower-case destination was
\* submitted with a positive value below the balance.
C14_Witness ==
  /\ opCall.op = "withdraw"
  /\ opOutcome = "submitted"
  /\ opCall.destination = LowerAddr(1)
  /\ opTxs[1].call = "sendTransaction"
  /\ opTxs[1].value > 0
  /\ opTxs[1].value < opCall.balance

\* ------------------------------------------------------------------------
\* Claims about send (checked under SpecSend)
\* ------------------------------------------------------------------------

\* The last send made the step `step`.
SendTook(step) == \E k \in 1..Len(opTrace) : opTrace[k] = step

\* The last send submitted a ledger call.
SendSubmitted == SendTook("sendEth") \/ SendTook("sendToken")

\* C15: no sendEth/sendToken call ever targets a denylisted stealth address:
\* a send that derived one fails with the invalid-stealth-address error after
\* the derivation and submits nothing, so no announcement on the ledger has a
\* denylisted receiver.
C15_DenylistChecked ==
  /\ \A i \in 1..Len(ledger) : ledger[i].receiver \notin BlockedStealthAddresses
  /\ sendOutcome = "invalid stealth address" =>
       /\ SendTook("encrypt")
       /\ ~SendSubmitted

\* C15 witness: a send to bob failed on the denylist after an earlier send
\* had been submitted, and the ledger still holds that one announcement.
C15_Witness ==
  /\ sendOutcome = "invalid stealth address"
  /\ Len(ledger) = 1
  /\ ~SendSubmitted

\* C16: when the directory does not resolve both public keys of the
\* recipient, send aborts with the no-public-keys error, encrypts no random
\* number and submits no ledger call.
C16_UnresolvedAborts ==
  SendTook("keys unresolved") =>
    /\ sendOutcome = "no public keys"
    /\ ~SendTook("encrypt")
    /\ ~SendSubmitted

\* C16 witness: a send aborted on an unresolved recipient after the toll read
\* and the lookup, with an earlier payment on the ledger.
C16_Witness ==
  /\ SendTook("keys unresolved")
  /\ sendOutcome = "no public keys"
  /\ SendTook("toll")
  /\ Len(ledger) = 1

\* A send call with a well-formed token and amount.
WellFormedSend ==
  /\ opCall.op = "send"
  /\ IsEth(opCall.token).ok
  /\ BigNumberFrom(opCall.amount).ok

\* C17 as claimed: a send by a sender whose balance is below the amount plus
\* the toll (the native asset), or whose token balance is below the amount
\* or whose native balance is below the toll (a token), submits no ledger
\* call.
C17_InsufficientFundsBeforeSubmit ==
  (WellFormedSend /\
     IF IsEth(opCall.token).val
     THEN opCall.ethBefore < BigNumberFrom(opCall.amount).val + Toll
     ELSE \/ opCall.tokenBefore < BigNumberFrom(opCall.amount).val
          \/ opCall.ethBefore < Toll) =>
    ~SendSubmitted

\* C17 amended: a token send by a sender whose token balance is below the
\* amount fails with the insufficient-balance error right after the balance
\* read, before any ledger call.
C17_TokenBalanceChecked ==
  (WellFormedSend /\ ~IsEth(opCall.token).val
     /\ opCall.tokenBefore < BigNumberFrom(opCall.amount).val) =>
    /\ sendOutcome = "insufficient balance"
    /\ opTrace = <<"balanceOf">>

\* C17 witness: a token send failed on the token balance although the sender
\* could pay the toll.
C17_Witness ==
  /\ WellFormedSend
  /\ ~IsEth(opCall.token).val
  /\ opCall.tokenBefore < BigNumberFrom(opCall.amount).val
  /\ opCall.ethBefore >= Toll
  /\ sendOutcome = "insufficient balance"

\* Steps that interact with the network.
NetworkSteps ==
  {"balanceOf", "toll", "lookupRecipient", "sendEth", "sendToken", "getBalance",
   "getGasPrice", "sendTransaction", "withdrawToken", "withdrawTokenOnBehalf"}

\* The outcomes that report a malformed caller-supplied input.
ValidationFailures ==
  {"invalid token", "invalid amount", "invalid destination", "invalid private key",
   "invalid gas price", "invalid gas limit", "invalid stealthAddr", "invalid sponsor",
   "invalid contract", "invalid acceptor", "invalid hook", "invalid chainId",
   "invalid data", "invalid encoding"}

\* C18: a call that fails validating a caller-supplied input has made no
\* network interaction.
C18_ValidationBeforeNetwork ==
  (sendOutcome \in ValidationFailures \/ opOutcome \in ValidationFailures) =>
    \A k \in 1..Len(opTrace) : opTrace[k] \notin NetworkSteps

\* ------------------------------------------------------------------------
\* Claims about the constructor and signWithdraw (checked under SpecOps)
\* ------------------------------------------------------------------------

\* A valid chain configuration argument: a supported chain ID, or a custom
\* config with an integer chainId, a numeric startBlock >= 0 and a
\* subgraphUrl that is a string or false.
ValidChainConfigInput(input) ==
  \/ /\ input.t = "number"
     /\ input \in {JsNumber(1), JsNumber(4), JsNumber(137), JsNumber(1337)}
  \/ /\ input.t = "object"
     /\ input.chainId.t = "number" /\ input.chainId.kind = "integer"
     /\ input.startBlock.t = "number" /\ input.startBlock.kind # "NaN"
     /\ input.startBlock.n >= 0
     /\ input.subgraphUrl.t = "string" \/ input.subgraphUrl = JsBoolean(FALSE)

\* The constructor accepted only a valid argument, and the instance holds a
\* valid configuration.
ConstructedValid ==
  /\ scanPc # "off" =>
       /\ ValidChainConfigInput(
            CustomConfig(chainConfig.chainId, chainConfig.startBlock,
                         chainConfig.subgraphUrl, chainConfig.umbraAddress))
       /\ chainConfig.umbraAddress.form = "checksum"
  /\ scanPc = "off" => chainConfig = NoChainConfig
  /\ opCall.op = "new" =>
       /\ opOutcome = "constructed" <=> scanPc # "off"
       /\ opOutcome = "constructed" => ValidChainConfigInput(opCall.chainConfig)
       /\ ~ValidChainConfigInput(opCall.chainConfig) => opOutcome = "rejected"
       /\ (opOutcome = "constructed" /\ opCall.chainConfig.t = "object") =>
            /\ chainConfig.chainId = opCall.chainConfig.chainId
            /\ chainConfig.startBlock = opCall.chainConfig.startBlock
            /\ chainConfig.subgraphUrl = opCall.chainConfig.subgraphUrl

\* C19: construction succeeds only with a valid chain configuration (a
\* supported chain ID, or a custom config with integer chainId, numeric
\* startBlock >= 0 and subgraphUrl a string or false), every other argument
\* is rejected, and no later call changes the stored configuration.
C19_ValidConfigOnly ==
  /\ []ConstructedValid
  /\ [][scanPc # "off" => chainConfig' = chainConfig]_vars

\* C19 witness: an instance constructed from a custom config with a
\* fractional start block still holds that config after a withdraw.
C19_Witness ==
  /\ opCall.op = "withdraw"
  /\ opOutcome = "submitted"
  /\ chainConfig.chainId = JsNumber(5)
  /\ chainConfig.startBlock = JsFraction(0)
  /\ chainConfig.subgraphUrl = JsBoolean(FALSE)

\* The tuple a signWithdraw call is about: its arguments with the addresses
\* normalised and the defaults filled in.
SignedTuple(call) ==
  <<call.chainId, GetAddress(call.contract), GetAddress(call.acceptor),
    GetAddress(call.token), GetAddress(call.sponsor), call.sponsorFee,
    GetAddress(IF call.hook = Omitted THEN AddressZero ELSE call.hook),
    IF call.data = JsUndefined THEN JsHex(0) ELSE call.data>>

\* The calls about the same tuple as `call`: they may differ in the key and
\* in how an address or a default is written.
SignVariants(call) == {other \in SignCalls : SignedTuple(other) = SignedTuple(call)}

\* The digest a signWithdraw call signs (when it signs).
DigestOf(call) == SignWithdrawResult(call).txs[1].signature.digest

\* C20: signWithdraw signs nothing when an address is malformed, the chainId
\* is no integer or the call data is no hex string; when it signs, the
\* signature is over a digest that every call with an equal tuple (chainId,
\* contract, acceptor, token, sponsor, sponsorFee, hook, data) signs too,
\* whatever the key.
C20_SignWithdraw ==
  opCall.op = "signWithdraw" =>
    /\ (\/ \E a \in {opCall.contract, opCall.acceptor, opCall.token, opCall.sponsor,
                      opCall.hook} : a.form = "bad"
        \/ ~(opCall.chainId.t = "number" /\ opCall.chainId.kind = "integer")
        \/ ~(opCall.data = JsUndefined
               \/ (opCall.data.t = "string" /\ opCall.data.kind \in {"hex", "oddhex"}))) =>
         /\ opOutcome # "signed"
         /\ opTrace = <<>>
         /\ opTxs = <<>>
    /\ opOutcome = "signed" =>
         /\ opTrace = <<"signMessage">>
         /\ Len(opTxs) = 1
         /\ opTxs[1].signature.signer = NewWallet(opCall.spendingPrivateKey).val.address
         /\ \A other \in SignVariants(opCall) :
              NewWallet(other.spendingPrivateKey).ok =>
                DigestOf(other) = opTxs[1].signature.digest

\* C20 witness: a call with the contract in lower case, the hook omitted and
\* call data given was signed.
C20_Witness ==
  /\ opCall.op = "signWithdraw"
  /\ opOutcome = "signed"
  /\ opCall.contract = LowerAddr(UmbraAddress.a)
  /\ opCall.hook = Omitted
  /\ opCall.data = JsHex(1)
  /\ opCall.spendingPrivateKey = PrivKey(2)

\* ------------------------------------------------------------------------
\* Key derivation
\* ------------------------------------------------------------------------

\* The same generatePrivateKeys call on network c, the wallet drawing nonce k.
OnNetwork(call, c, k) == GeneratePrivateKeysResult([call EXCEPT !.networkChainId = c, !.nonce = k])

\* C21: generatePrivateKeys signs the base message on chain ID 1 and the base
\* message with a chain-ID suffix on any other chain; for one deterministic
\* signer the signatures and both derived key pairs differ between two
\* chains, and repeated calls on one chain yield the same key pairs.
C21_KeysPerChain ==
  (opCall.op = "generatePrivateKeys" /\ opOutcome = "generated") =>
    /\ Len(opTxs) = 1
    /\ opTxs[1].message[1] = "Sign this message to access your Umbra account."
    /\ IF opCall.networkChainId = 1
       THEN Len(opTxs[1].message) = 1
       ELSE /\ Len(opTxs[1].message) = 3
            /\ opTxs[1].message[3] = opCall.networkChainId
    /\ opCall.wallet = "rfc6979" =>
         \A c \in Networks, k \in {1, 2} :
           LET other == OnNetwork(opCall, c, k)
           IN /\ other.outcome = "generated"
              /\ IF c = opCall.networkChainId
                 THEN /\ other.txs[1].spendingKeyPair = opTxs[1].spendingKeyPair
                      /\ other.txs[1].viewingKeyPair = opTxs[1].viewingKeyPair
                 ELSE /\ other.txs[1].signature # opTxs[1].signature
                      /\ other.txs[1].spendingKeyPair # opTxs[1].spendingKeyPair
                      /\ other.txs[1].viewingKeyPair # opTxs[1].viewingKeyPair

\* Keys were generated on chain 4 with a deterministic signer.
C21_Witness ==
  /\ opCall.op = "generatePrivateKeys"
  /\ opCall.wallet = "rfc6979"
  /\ opCall.networkChainId = 4
  /\ opOutcome = "generated"
  /\ opTxs[1].spendingKeyPair # OnNetwork(opCall, 1, 1).txs[1].spendingKeyPair

\* A computeStealthPrivateKey call with a spending private key and the hex
\* string of a scalar.
ValidStealthInputs ==
  /\ opCall.op = "computeStealthPrivateKey"
  /\ opCall.spendingPrivateKey.kind = "priv"
  /\ opCall.randomNumber.kind = "hex"
  /\ opCall.randomNumber.n \in Scalars

\* C22: for every valid spending private key d and random number r, the
\* address of the key computeStealthPrivateKey(d, r) returns is the address
\* send derives from the spending public key and r (the receiver of the
\* announcement), whatever the viewing key and the ephemeral key.
C22_StealthKeyMatchesAddress ==
  ValidStealthInputs =>
    /\ opOutcome = "computed"
    /\ Len(opTxs) = 1
    /\ NewKeyPair(opTxs[1]).ok
    /\ \A v \in Points, e \in SendScalars :
         AddressOf(NewKeyPair(opTxs[1]).val)
           = SendAnnouncement(PubKey(NewKeyPair(opCall.spendingPrivateKey).val.pub),
                              PubKey(v), opCall.randomNumber.n, e).receiver

\* A stealth private key other than the spending key was computed.
C22_Witness ==
  /\ ValidStealthInputs
  /\ opOutcome = "computed"
  /\ opCall.randomNumber.n > 1
  /\ opTxs[1] # opCall.spendingPrivateKey

\* ------------------------------------------------------------------------
\* Page cursors and termination of recursiveGraphFetch (SpecFetch)
\* ------------------------------------------------------------------------

\* The rows accumulated when request k is built: the pages before it.
AccumulatedBefore(k) == Flatten(SubSeq(pages, 1, k - 1))

\* The greatest identifier among the rows of a non-empty sequence.
GreatestId(sq) == CHOOSE m \in {sq[i].id : i \in 1..Len(sq)} : \A i \in 1..Len(sq) : sq[i].id <= m

\* C23 as stated: the first request carries no lower bound and every later
\* request is lower-bounded by the greatest identifier accumulated so far.
C23_CursorIsGreatest ==
  \A k \in 1..Len(requests) :
    requests[k] = IF k = 1 THEN NoCursor ELSE <<GreatestId(AccumulatedBefore(k))>>

\* C23 amended: the first request carries no lower bound and every later
\* request is lower-bounded by the identifier of the last row accumulated so
\* far, which is the greatest identifier accumulated whenever the pages
\* arrived in ascending identifier order.
C23_CursorIsLast ==
  \A k \in 1..Len(requests) :
    IF k = 1 THEN requests[k] = NoCursor
    ELSE LET acc == AccumulatedBefore(k)
         IN /\ Len(acc) > 0
            /\ requests[k] = <<acc[Len(acc)].id>>
            /\ (\A j \in 1..(k - 1) : AscendingPage(pages[j])) =>
                 requests[k] = <<GreatestId(acc)>>

\* C23 witness: a third request was built after two ascending pages of an
\* indexer free in its order, and its cursor is above the second request's.
C23_Witness ==
  /\ indexer.kind = "any"
  /\ Len(requests) = 3
  /\ AscendingPage(pages[1]) /\ AscendingPage(pages[2])
  /\ requests[2] # NoCursor
  /\ requests[3][1] > requests[2][1]

\* The run received an empty page, and none before it.
FirstEmptyPageReceived ==
  /\ Len(pages) > 0
  /\ pages[Len(pages)] = <<>>
  /\ \A k \in 1..(Len(pages) - 1) : pages[k] # <<>>

\* C27: for every indexer holding finitely many rows with distinct
\* identifiers that answers each request with at most PageSize of its rows
\* above the cursor, in any order, recursiveGraphFetch eventually returns,
\* and it has returned exactly when it has received the first empty page.
C27_Terminates ==
  /\ []((fetchPc = "returned") <=> FirstEmptyPageReceived)
  /\ ([](fetchPc # "rejected") => <>(fetchPc = "returned"))

\* C27 witness: a run returned after as many non-empty pages as the indexer
\* holds rows, each page answered out of a larger choice.
C27_Witness ==
  /\ fetchPc = "returned"
  /\ indexer.kind = "any"
  /\ Cardinality(indexer.rows) = MaxId
  /\ Len(pages) = MaxId + 1
  /\ FirstEmptyPageReceived

\* ------------------------------------------------------------------------
\* Retrieval strategy of scan (Spec)
\* ------------------------------------------------------------------------

\* The rows of the indexer's answer that the matcher accepts for the scan
\* call's keys, in the order of the answer.
AcceptedRows ==
  SelectSeq(fetchResult,
            LAMBDA x : IsAnnouncementForUser(scanArgs.spendingPublicKey,
                                             scanArgs.viewingPrivateKey, x).val.isForUser)

\* C24: when nothing fails scan uses exactly one retrieval strategy. With a
\* subgraph configured, fetch available and the indexed query and the
\* processing of its rows succeeding, scan resolves with the matches of the
\* indexed rows and issues no raw-log query; without a subgraph or without
\* fetch it issues no indexer request.
C24_OneStrategy ==
  /\ (scanPc = "done" /\ hasWindow /\ chainConfig.subgraphUrl # NoSubgraph
        /\ fetchPc = "returned" /\ graphOutcome # "postFailed") =>
       /\ graphOutcome = "ok"
       /\ scanResult.status = "resolved"
       /\ Len(scanResult.userAnnouncements) = Len(AcceptedRows)
       /\ \A k \in 1..Len(AcceptedRows) :
            /\ scanResult.userAnnouncements[k].txHash = AcceptedRows[k].txHash
            /\ scanResult.userAnnouncements[k].receiver = AcceptedRows[k].receiver
       /\ logQueries = <<>>
       /\ logEvents = <<>>
       /\ logOutcome = "none"
       /\ warnings = 0
  /\ (~hasWindow \/ chainConfig.subgraphUrl = NoSubgraph) =>
       /\ requests = <<>>
       /\ fetchPc = "off"
       /\ graphOutcome = "none"
       /\ scanPc = "done" => (Len(logQueries) = 1 \/ chainConfig.chainId = 137)

\* C24 witness: the indexed query took three requests and scan resolved with
\* two of the three rows, without any raw-log query.
C24_Witness ==
  /\ scanPc = "done"
  /\ graphOutcome = "ok"
  /\ Len(fetchResult) = 3
  /\ Len(requests) = 3
  /\ Len(scanResult.userAnnouncements) = 2
  /\ logQueries = <<>>

\* ------------------------------------------------------------------------
\* The ledger call of send (SpecSend)
\* ------------------------------------------------------------------------

\* The ledger call of the last send, when it was submitted.
LastSend == sends[Len(sends)]

\* C25: a successful send submits exactly one ledger call, as its last step:
\* sendEth with value toll + amount for the native asset, sendToken with
\* value toll for a token, addressed to the stealth address derived from the
\* recipient's spending key and the random number, with the x-coordinate of
\* the ephemeral public key and the ciphertext; the call's overrides are the
\* caller's without advanced, supportPubKey and supportTxHash, and the
\* caller's overrides object is as it was passed.
C25_OneLedgerCall ==
  (opCall.op = "send" /\ sendOutcome = "submitted") =>
    LET calls == {k \in 1..Len(opTrace) : opTrace[k] \in {"sendEth", "sendToken"}}
        amount == BigNumberFrom(opCall.amount).val
        recipient == RecipientKeys(LastSend.recipient)
        given == opCall.overrides
    IN /\ calls = {Len(opTrace)}
       /\ IF IsEth(opCall.token).val
          THEN /\ LastSend.call = "sendEth"
               /\ LastSend.value = Toll + amount
               /\ ethBalance = opCall.ethBefore - (Toll + amount)
               /\ tokenBalance = opCall.tokenBefore
          ELSE /\ LastSend.call = "sendToken"
               /\ LastSend.value = Toll
               /\ ethBalance = opCall.ethBefore - Toll
               /\ tokenBalance = opCall.tokenBefore - amount
       /\ LastSend.txOverrides["value"] = JsNumber(LastSend.value)
       /\ LastSend.stealthAddress = ChecksumAddr((recipient.spend * LastSend.r) % CurveOrder)
       /\ \E e \in SendScalars :
            /\ LastSend.pkx = XCoord(e)
            /\ LastSend.ciphertext = Sealed(SharedSecret(recipient.view, e), LastSend.r)
       /\ ledger[Len(ledger)].receiver = LastSend.stealthAddress
       /\ DOMAIN LastSend.txOverrides
            = (DOMAIN given \ {"advanced", "supportPubKey", "supportTxHash"}) \cup {"value"}
       /\ \A k \in DOMAIN LastSend.txOverrides \ {"value"} : LastSend.txOverrides[k] = given[k]
       /\ opCall.overridesAfter = given

\* C25 witness: a token send was submitted with transaction overrides and
\* every lookup-only override.
C25_Witness ==
  /\ opCall.op = "send"
  /\ sendOutcome = "submitted"
  /\ LastSend.call = "sendToken"
  /\ "advanced" \in DOMAIN opCall.overrides
  /\ "nonce" \in DOMAIN LastSend.txOverrides
  /\ opCall.overridesAfter = opCall.overrides

\* ------------------------------------------------------------------------
\* The follow-up reads of userAnnouncementsFromLogs (Spec)
\* ------------------------------------------------------------------------

\* The positions of logEvents whose announcement the matcher accepts.
AcceptedPositions == {k \in 1..Len(logEvents) : MatchEvent(logEvents[k]).isForUser}

\* The reads that have resolved so far.
ResolvedReads ==
  {rd \in (1..Len(readSlots)) \X {"block", "tx"} : readSlots[rd[1]][rd[2]] # <<>>}

\* C26: whatever the order in which the concurrent getBlock/getTransaction
\* reads complete, reads are issued only for the announcements the matcher
\* accepted, every result is bound to the announcement whose read it is, and
\* the list returned holds exactly the accepted announcements in ledger-log
\* order, each with the sender and the timestamp of its own event.
C26_ReadsOrderIndependent ==
  /\ scanPc = "reads" \/ logOutcome \in {"ok", "readFailed"} =>
       /\ Len(readSlots) = Len(logEvents)
       /\ pendingReads \cup ResolvedReads = AcceptedPositions \X {"block", "tx"}
       /\ pendingReads \cap ResolvedReads = {}
       /\ \A k \in 1..Len(readSlots) :
            /\ readSlots[k].isNull <=> k \notin AcceptedPositions
            /\ readSlots[k].block # <<>> =>
                 readSlots[k].block[1].number = ledger[logEvents[k]].block
            /\ readSlots[k].tx # <<>> =>
                 readSlots[k].tx[1].hash = ledger[logEvents[k]].txHash
  /\ (scanPc = "done" /\ logOutcome = "ok") =>
       LET uas == scanResult.userAnnouncements
       IN /\ scanResult.status = "resolved"
          /\ {uas[j].txHash : j \in 1..Len(uas)}
               = {ledger[logEvents[k]].txHash : k \in AcceptedPositions}
          /\ Len(uas) = Cardinality(AcceptedPositions)
          /\ \A j \in 1..(Len(uas) - 1) : uas[j].txHash < uas[j + 1].txHash
          /\ \A j \in 1..Len(uas) :
               /\ uas[j].from = ledger[uas[j].txHash].from
               /\ uas[j].timestamp = Str(ledger[uas[j].txHash].timestamp)
               /\ uas[j].receiver = ledger[uas[j].txHash].receiver

\* C26 witness: of two accepted announcements the reads of the later one
\* have both resolved while those of the earlier one are still in flight,
\* and a third announcement was rejected without reads.
C26_Witness ==
  /\ scanPc = "reads"
  /\ Len(logEvents) = 3
  /\ Cardinality(AcceptedPositions) = 2
  /\ \E k \in AcceptedPositions, h \in AcceptedPositions :
       /\ k < h
       /\ <<k, "block">> \in pendingReads /\ <<k, "tx">> \in pendingReads
       /\ readSlots[h].block # <<>> /\ readSlots[h].tx # <<>>

====
